---- MODULE Spec2Model ----
(***************************************************************************)
(* EventConnect extension: the Google Sheets service (background/          *)
(* sheets-service.ts) and the message handler in front of it               *)
(* (background/message-handler.ts).                                        *)
(*                                                                         *)
(* Two specifications share the variables:                                 *)
(*   SpecClient  the service's HTTP methods (readRange, updateRange,       *)
(*               appendToSheet, validateSheetStructure), one call at a     *)
(*               time, one loop iteration of readRange per step;           *)
(*   Spec        MessageHandler.handleMessage in front of the service,     *)
(*               with chrome.storage.local, the response cache and time.   *)
(* Further specifications, each introduced where it is defined, look at    *)
(* single functions of the service (SpecStore, SpecParser, SpecHeaderRow,  *)
(* SpecEventSheet, SpecReadMessages), at GoogleAuthService (SpecAuth) and  *)
(* at the Logger (SpecLogger).                                             *)
(***************************************************************************)
EXTENDS Integers, Sequences, FiniteSets, TLC

VARIABLES
    token,          \* what the getAuthToken capability yields right now
    call,           \* the service method call in progress (SpecClient)
    remote,         \* the remote spreadsheets, by sheet id
    store,          \* chrome.storage.local: sheetStructure_<id> and its timestamp
    responseCache,  \* MessageHandler.responseCache
    now,            \* Date.now(), in milliseconds
    ticks,          \* how many times the clock has advanced
    req,            \* the readEventSheet call that is reading the tabs, if any
    last,           \* the message the last step handled and what handling it
                    \* did; no message after a step of the environment
    storeOps,       \* SpecStore: what was last stored for every sheet id, and
                    \* the getSheetStructure call of the last step
    readmeValues,   \* SpecParser: the values of a README tab
    readmeResult,   \* SpecParser: what parsing and validating them gave
    tabValues,      \* SpecEventSheet: the rows of every tab of the remote sheets
    sheetCall,      \* SpecEventSheet: the call of readEventSheet or of
                    \* updateEventData under way or returned
    authToken,      \* SpecAuth: chrome.storage.local, the item authToken
    authCall,       \* SpecAuth: the last call of a method of GoogleAuthService
    logs,           \* SpecLogger: Logger.logs
    currentLevel,   \* SpecLogger: Logger.currentLevel
    requestCounts,  \* SpecRateLimit: MessageHandler.requestCounts
    versions,       \* SpecReadUpdate: for every sheet, how many updates of
                    \* it have returned success, and after how many of
                    \* them the data of its cached response was read
    currentSendingProcess,  \* SpecBulkSend: the field of WhatsAppCoordinatorImpl
    runs,           \* SpecBulkSend: the calls of startBulkSending: where
                    \* each is, its guests, and how it ended
    rateWindows     \* SpecRateLimit: for every sender id, the window its
                    \* requests are in: when its first request came, how
                    \* many requests came in it and how many were
                    \* accepted, and whether one was refused in the
                    \* window before

\* The variables that only the specifications of single functions use.
parserVars == <<readmeValues, readmeResult>>
sheetVars == <<tabValues, sheetCall>>
authVars == <<authToken, authCall>>
loggerVars == <<logs, currentLevel>>
rateVars == <<requestCounts, rateWindows>>
bulkVars == <<currentSendingProcess, runs>>
extraVars == <<rateVars, versions, bulkVars>>
unitVars == <<storeOps, parserVars, sheetVars, authVars, loggerVars, extraVars>>

vars == <<token, call, remote, store, responseCache, now, ticks, req, last, unitVars>>

(***************************************************************************)
(* Program constants.                                                      *)
(***************************************************************************)
MAX_RETRIES == 3
RETRY_DELAY == 1000
CACHE_DURATION == 5 * 60 * 1000
STRUCTURE_MAX_AGE == 24 * 60 * 60 * 1000

(***************************************************************************)
(* Bounds of the model.                                                    *)
(***************************************************************************)
MaxTicks == 1

Sheets == {"s1", "s2"}
NoSheet == "undefined"
SheetArgs == Sheets \cup {NoSheet}

(***************************************************************************)
(* The token capability and the outcomes of one fetch.                     *)
(***************************************************************************)
NoToken == "null"
Tokens == {"t1", "t2"}
TokenValues == Tokens \cup {NoToken}

\* "neterr": fetch rejects (TypeError: Failed to fetch); otherwise the
\* response's status, "ok" standing for a 2xx response.
Outcomes == {"ok", "401", "403", "404", "429", "500", "neterr"}

\* The answers the message-level model draws for the fetches of a handler:
\* one answer of every kind the handler tells apart.
MetaOutcomes == {"ok", "403", "404", "500", "neterr"}
ReadmeOutcomes == {"ok", "500", "neterr"}
NameOutcomes == {"ok", "404"}
WriteOutcomes == {"ok", "404", "429", "neterr"}

\* The answers to the metadata fetch and to the README fetch of one
\* validation; the second is drawn only when the first is ok, and none is
\* drawn for a call that has no token and fetches nothing.
ValidateAnswers(tok) ==
    IF tok = NoToken THEN {<<"ok", "ok">>}
    ELSE {<<o1, "ok">> : o1 \in MetaOutcomes} \cup {<<"ok", o2>> : o2 \in ReadmeOutcomes}
NameAnswers(tok) == IF tok = NoToken THEN {"ok"} ELSE NameOutcomes
WriteAnswers(tok) == IF tok = NoToken THEN {"ok"} ELSE WriteOutcomes

Undefined == "undefined"
NoAuthTokenError == "No authentication token available"
FetchRejected == "Failed to fetch"

\* response.statusText: the reason phrase of the status.
StatusText(status) ==
    CASE status = "401" -> "Unauthorized"
      [] status = "403" -> "Forbidden"
      [] status = "404" -> "Not Found"
      [] status = "429" -> "Too Many Requests"
      [] status = "500" -> "Internal Server Error"
      [] OTHER -> "OK"

SheetsApiError(status) == "Sheets API error: " \o status \o " " \o StatusText(status)
UpdateError(status) == "Failed to update sheet: " \o status \o " " \o StatusText(status)
AppendError(status) == "Failed to append to sheet: " \o status \o " " \o StatusText(status)

(***************************************************************************)
(* A service method call: the token it captured, the loop counter, every   *)
(* fetch it issued (with the token sent and the token the capability held  *)
(* at that moment), the sleeps it made and how it ended.                   *)
(***************************************************************************)
IdleCall ==
    [op |-> "none", pc |-> "idle", sheet |-> NoSheet, token |-> NoToken, attempt |-> 0,
     log |-> <<>>, tokenCalls |-> 0, sleeps |-> <<>>,
     lastError |-> Undefined, result |-> "none", error |-> Undefined]

Fetch(kind, tok, cur, out) == [kind |-> kind, tok |-> tok, cur |-> cur, out |-> out]

\* A variant of EnterCall without the test of the token: the method goes on
\* to its fetch with whatever getAuthToken yielded.
EnterCallUnchecked(op, tok) ==
    [IdleCall EXCEPT !.op = op, !.pc = "loop", !.tokenCalls = 1,
                     !.token = tok, !.attempt = 1]

\* getAuthToken() at the head of a method, and the throw when it yields null.
EnterCall(op, tok) ==
    IF tok = NoToken
    THEN [IdleCall EXCEPT !.op = op, !.pc = "done", !.tokenCalls = 1,
                          !.result = "throw", !.error = NoAuthTokenError]
    ELSE [IdleCall EXCEPT !.op = op, !.pc = "loop", !.tokenCalls = 1,
                          !.token = tok, !.attempt = 1]

\* A variant of LoopStep whose loop test lets one attempt more through.
LoopStepOneMore(c) ==
    IF c.attempt + 1 <= MAX_RETRIES + 1
    THEN [c EXCEPT !.attempt = @ + 1]
    ELSE [c EXCEPT !.attempt = @ + 1, !.pc = "done", !.result = "throw",
                   !.error = c.lastError]

\* attempt++ and the loop test; past MAX_RETRIES the method throws lastError.
LoopStep(c) ==
    IF c.attempt + 1 <= MAX_RETRIES
    THEN [c EXCEPT !.attempt = @ + 1]
    ELSE [c EXCEPT !.attempt = @ + 1, !.pc = "done", !.result = "throw",
                   !.error = c.lastError]

\* One iteration of readRange's loop, the fetch answered with o.
readRangeAttempt(c, o, cur) ==
    LET c1 == [c EXCEPT !.log = Append(@, Fetch("values", c.token, cur, o))]
    IN  IF o = "neterr"
        THEN \* fetch rejects: the catch block
             LET c2 == [c1 EXCEPT !.lastError = FetchRejected]
             IN  LoopStep(IF c.attempt < MAX_RETRIES
                          THEN [c2 EXCEPT !.sleeps = Append(@, RETRY_DELAY * c.attempt)]
                          ELSE c2)
        ELSE IF o = "429"
        THEN \* rate limited: sleep and continue, lastError untouched
             LoopStep([c1 EXCEPT !.sleeps = Append(@, RETRY_DELAY * c.attempt)])
        ELSE IF o # "ok"
        THEN \* !response.ok: thrown inside the try, caught by the same catch
             LET c2 == [c1 EXCEPT !.lastError = SheetsApiError(o)]
             IN  LoopStep(IF c.attempt < MAX_RETRIES
                          THEN [c2 EXCEPT !.sleeps = Append(@, RETRY_DELAY * c.attempt)]
                          ELSE c2)
        ELSE [c1 EXCEPT !.pc = "done", !.result = "ok"]

\* updateRange: the token, one PUT, a throw unless the response is ok.
updateRange(tok, o) ==
    LET c == EnterCall("updateRange", tok)
    IN  IF c.pc = "done" THEN c
        ELSE LET c1 == [c EXCEPT !.log = Append(@, Fetch("put", tok, tok, o)),
                                 !.pc = "done"]
             IN  IF o = "ok" THEN [c1 EXCEPT !.result = "ok"]
                 ELSE [c1 EXCEPT !.result = "throw",
                                 !.error = IF o = "neterr" THEN FetchRejected
                                           ELSE UpdateError(o)]

\* appendToSheet: the token, one POST, a throw unless the response is ok.
appendToSheet(tok, o) ==
    LET c == EnterCall("appendToSheet", tok)
    IN  IF c.pc = "done" THEN c
        ELSE LET c1 == [c EXCEPT !.log = Append(@, Fetch("append", tok, tok, o)),
                                 !.pc = "done"]
             IN  IF o = "ok" THEN [c1 EXCEPT !.result = "ok"]
                 ELSE [c1 EXCEPT !.result = "throw",
                                 !.error = IF o = "neterr" THEN FetchRejected
                                           ELSE AppendError(o)]

(***************************************************************************)
(* Strings of the remote data are sequences of one-character strings, so   *)
(* that toLowerCase, includes, trim and parseInt do what they do in the    *)
(* code.                                                                   *)
(***************************************************************************)
UpperChars == <<"A","B","C","D","E","F","G","H","I","J","K","L","M",
                "N","O","P","Q","R","S","T","U","V","W","X","Y","Z">>
LowerChars == <<"a","b","c","d","e","f","g","h","i","j","k","l","m",
                "n","o","p","q","r","s","t","u","v","w","x","y","z">>
DigitChars == <<"0","1","2","3","4","5","6","7","8","9">>

LowerChar(ch) ==
    IF \E i \in 1..26 : UpperChars[i] = ch
    THEN LowerChars[CHOOSE i \in 1..26 : UpperChars[i] = ch]
    ELSE ch

toLowerCase(s) == [i \in 1..Len(s) |-> LowerChar(s[i])]

includes(s, sub) ==
    \E i \in 0..(Len(s) - Len(sub)) : SubSeq(s, i + 1, i + Len(sub)) = sub

RECURSIVE trimStart(_)
trimStart(s) == IF s # <<>> /\ Head(s) = " " THEN trimStart(Tail(s)) ELSE s

RECURSIVE trimEnd(_)
trimEnd(s) ==
    IF s # <<>> /\ s[Len(s)] = " " THEN trimEnd(SubSeq(s, 1, Len(s) - 1)) ELSE s

trim(s) == trimEnd(trimStart(s))

IsDigit(ch) == \E i \in 1..10 : DigitChars[i] = ch
DigitValue(ch) == (CHOOSE i \in 1..10 : DigitChars[i] = ch) - 1

\* The value of the longest prefix of digits of s, acc the value so far.
RECURSIVE DigitsValue(_, _)
DigitsValue(s, acc) ==
    IF s # <<>> /\ IsDigit(Head(s))
    THEN DigitsValue(Tail(s), 10 * acc + DigitValue(Head(s)))
    ELSE acc

NaN == [nan |-> TRUE, value |-> 0]
Num(n) == [nan |-> FALSE, value |-> n]

\* JavaScript parseInt, radix 10: leading blanks, a sign, then digits; NaN
\* when no digit follows.
parseInt(s) ==
    LET t == trimStart(s)
        neg == t # <<>> /\ Head(t) = "-"
        u == IF t # <<>> /\ Head(t) \in {"-", "+"} THEN Tail(t) ELSE t
    IN  IF u = <<>> \/ ~IsDigit(Head(u)) THEN NaN
        ELSE IF neg THEN Num(0 - DigitsValue(u, 0)) ELSE Num(DigitsValue(u, 0))

(***************************************************************************)
(* parseReadmeStructure.  A structure's tabs are kept in insertion order:  *)
(* a sequence of [name, headerRow, columns].                               *)
(***************************************************************************)
S_tab == <<"t","a","b">>
S_header == <<"h","e","a","d","e","r">>
S_column == <<"c","o","l","u","m","n">>
\* A variant of S_ignore: another word marks the rows to leave out.
S_skip == <<"s","k","i","p">>

S_ignore == <<"i","g","n","o","r","e">>
S_readme == <<"r","e","a","d","m","e">>

\* expectedHeaders.every(h => normalizedRow.some(cell => cell.includes(first word of h)))
IsHeaderRow(row) ==
    /\ Len(row) >= 4
    /\ LET normalizedRow == [i \in 1..4 |-> trim(toLowerCase(row[i]))]
       IN  \A h \in {S_tab, S_header, S_column} :
               \E i \in 1..4 : includes(normalizedRow[i], h)

\* The index of the first header row, 0 when there is none.
FindHeaderRow(values) ==
    IF \E i \in 1..Len(values) : IsHeaderRow(values[i])
    THEN CHOOSE i \in 1..Len(values) :
             /\ IsHeaderRow(values[i])
             /\ \A j \in 1..(i - 1) : ~IsHeaderRow(values[j])
    ELSE 0

HasTab(tabs, name) == \E i \in 1..Len(tabs) : tabs[i].name = name
TabIndex(tabs, name) == CHOOSE i \in 1..Len(tabs) : tabs[i].name = name

\* The body of the loop over the rows after the header row.
AddReadmeRow(tabs, row) ==
    IF Len(row) < 4 THEN tabs
    ELSE LET tabName == row[1]
             columnName == row[3]
         IN  IF tabName = <<>> \/ columnName = <<>> THEN tabs
             ELSE IF includes(toLowerCase(tabName), S_ignore) THEN tabs
             ELSE LET cleanTabName == trim(tabName)
                      cleanColumnName == trim(columnName)
                      cleanDescription == trim(row[4])
                      parsed == parseInt(row[2])
                      \* parseInt(headerRow) || 1
                      headerRowNum == IF parsed.nan \/ parsed.value = 0 THEN 1
                                      ELSE parsed.value
                      tabs1 == IF HasTab(tabs, cleanTabName) THEN tabs
                               ELSE Append(tabs, [name |-> cleanTabName,
                                                  headerRow |-> headerRowNum,
                                                  columns |-> <<>>])
                      k == TabIndex(tabs1, cleanTabName)
                  IN  IF cleanColumnName # <<>>
                         /\ ~includes(toLowerCase(cleanColumnName), S_ignore)
                      THEN [tabs1 EXCEPT ![k].columns =
                               Append(@, [name |-> cleanColumnName,
                                          description |-> cleanDescription])]
                      ELSE tabs1

RECURSIVE ParseReadmeRows(_, _, _)
ParseReadmeRows(values, i, tabs) ==
    IF i > Len(values) THEN tabs
    ELSE ParseReadmeRows(values, i + 1, AddReadmeRow(tabs, values[i]))

Null == "null"

\* A structure that is null.  A structure that is not has the fields tabs
\* and, from validateSheetStructure on, sheetTitle and totalTabs.
NoStructure == [null |-> TRUE]

\* null when no header row is found, else the structure.
parseReadmeStructure(values) ==
    LET headerRowIndex == FindHeaderRow(values)
    IN  IF headerRowIndex = 0 THEN NoStructure
        ELSE [tabs |-> ParseReadmeRows(values, headerRowIndex + 1, <<>>)]

(***************************************************************************)
(* The remote spreadsheets the model draws from: the title, the titles of  *)
(* the tabs and the values of the README tab.                              *)
(***************************************************************************)
S_README == <<"R","E","A","D","M","E">>
S_Readme == <<"R","e","a","d","m","e">>
S_Tab == <<"T","a","b">>
S_HeaderRow == <<"H","e","a","d","e","r"," ","R","o","w">>
S_Column == <<"C","o","l","u","m","n">>
S_ColumnDescription == <<"C","o","l","u","m","n"," ","D","e","s","c">>
S_Budget == <<"B","u","d","g","e","t">>
S_Tasks == <<"T","a","s","k","s">>
S_IgnoreMe == <<"I","g","n","o","r","e"," ","M","e">>
S_Category == <<"C","a","t","e","g","o","r","y">>
S_Amount == <<"A","m","o","u","n","t">>
S_Name == <<"N","a","m","e">>
S_X == <<"X">>
S_1 == <<"1">>
S_2 == <<"2">>
S_Desc == <<"d">>
S_Wedding == <<"W","e","d","d","i","n","g">>
S_Party == <<"P","a","r","t","y">>

S_Overview == <<"O","v","e","r","v","i","e","w">>
S_Field == <<"F","i","e","l","d">>

ReadmeHeader == <<S_Tab, S_HeaderRow, S_Column, S_ColumnDescription>>

\* The description table of the budget example: one tab Budget with two
\* columns, and a row to ignore.
ReadmeBudget ==
    << ReadmeHeader,
       <<S_Budget, S_1, S_Category, S_Desc>>,
       <<S_Budget, S_1, S_Amount, S_Desc>>,
       <<S_IgnoreMe, S_1, S_X, S_Desc>> >>

\* A title line above the header row, two tabs.
ReadmeTasks ==
    << <<S_Party>>,
       ReadmeHeader,
       <<S_Tasks, S_2, S_Name, S_Desc>>,
       <<S_Budget, S_X, S_Amount, S_Desc>> >>

S_Timeline == <<"T", "i", "m", "e", "l", "i", "n", "e">>

\* Four tabs: an overview, a budget, tasks, a timeline.
ReadmeEvent ==
    << ReadmeHeader,
       <<S_Overview, S_1, S_Field, S_Desc>>,
       <<S_Budget, S_1, S_Category, S_Desc>>,
       <<S_Budget, S_1, S_Amount, S_Desc>>,
       <<S_Tasks, S_2, S_Name, S_Desc>>,
       <<S_Timeline, S_1, S_Name, S_Desc>> >>

\* No header row.
ReadmeNoHeader == << <<S_Budget, S_1, S_Category, S_Desc>> >>

\* The documents a sheet id can name, by a short name: the variable remote
\* holds the name, Document the content.
Documents == {"budget", "tasks", "noReadme", "emptyReadme", "noHeader", "event"}

Document(d) ==
    CASE d = "budget" ->
           [title |-> S_Wedding, sheets |-> <<S_README, S_Budget>>, readme |-> ReadmeBudget]
      [] d = "tasks" ->
           [title |-> S_Party, sheets |-> <<S_Tasks, S_Readme, S_Budget>>,
            readme |-> ReadmeTasks]
      [] d = "noReadme" ->
           [title |-> S_Wedding, sheets |-> <<S_Budget>>, readme |-> <<>>]
      [] d = "emptyReadme" ->
           [title |-> S_Wedding, sheets |-> <<S_README>>, readme |-> <<>>]
      [] d = "event" ->
           [title |-> S_Wedding,
            sheets |-> <<S_README, S_Overview, S_Budget, S_Tasks, S_Timeline>>,
            readme |-> ReadmeEvent]
      [] d = "noHeader" ->
           [title |-> S_Wedding, sheets |-> <<S_README, S_Budget>>,
            readme |-> ReadmeNoHeader]

\* parseReadmeStructure of the README of every remote sheet of the model,
\* evaluated once.
ParsedReadme == [d \in Documents |-> parseReadmeStructure(Document(d).readme)]

(***************************************************************************)
(* validateSheetStructure.  Its result, with the fetches it issued.        *)
(***************************************************************************)
MsgPermissionDenied == "Permission denied. Please ensure the sheet is shared with your Google account."
MsgSheetNotFound == "Sheet not found. Please check the Sheet ID."
AccessFailed(status) == "Sheet access failed: " \o StatusText(status)
MsgReadmeNotFound == "README tab not found. Please create a README tab in your Google Sheets with the structure definition table (Tab, Header Row, Column, Column Description)."
MsgReadmeReadFailed == "Failed to read README tab content."
MsgReadmeEmpty == "README tab is empty. Please add the structure definition table."
MsgCouldNotParse == "Could not parse sheet structure from README tab. Please ensure the table has columns: Tab, Header Row, Column, Column Description."
MsgNetworkError == "Network error. Please check your internet connection and try again."
MsgAuthExpired == "Authentication expired. Please sign in again."

\* A variant of Invalid in which the README fetch has been issued whatever
\* the metadata fetch gave.
InvalidAfterReadme(error, log) ==
    [isValid |-> FALSE, structure |-> NoStructure, error |-> error,
     log |-> IF Len(log) = 1
             THEN Append(log, Fetch("readme", log[1].tok, log[1].tok, "ok"))
             ELSE log]

Invalid(error, log) ==
    [isValid |-> FALSE, structure |-> NoStructure, error |-> error, log |-> log]

\* sheetInfo.sheets?.find(sheet => sheet.properties.title.toLowerCase() === 'readme')
HasReadmeTab(r) ==
    \E i \in 1..Len(r.sheets) : toLowerCase(r.sheets[i]) = S_readme

ReadmeTabFound == [d \in Documents |-> HasReadmeTab(Document(d))]

\* The end of validateSheetStructure, from the parsed structure on.
validateParsed(structure, title, log) ==
    IF structure = NoStructure THEN Invalid(MsgCouldNotParse, log)
    ELSE IF Len(structure.tabs) = 0 THEN Invalid(MsgCouldNotParse, log)
    ELSE [isValid |-> TRUE,
          structure |-> [tabs |-> structure.tabs,
                         sheetTitle |-> title,
                         totalTabs |-> Len(structure.tabs)],
          error |-> Null,
          log |-> log]

\* validateSheetStructure from the README values on: the test for an empty
\* README, parseReadmeStructure and the test of its result.
validateReadmeValues(values, title, log) ==
    IF Len(values) = 0 THEN Invalid(MsgReadmeEmpty, log)
    ELSE validateParsed(parseReadmeStructure(values), title, log)

\* tok: what getAuthToken yields; d: the remote document; o1, o2: how the
\* metadata fetch and the README fetch are answered.
validateSheetStructure(tok, d, o1, o2) ==
    LET r == Document(d) IN
    IF tok = NoToken
    THEN \* the throw is caught below: the message mentions "authentication"
         Invalid(MsgAuthExpired, <<>>)
    ELSE
    LET f1 == <<Fetch("meta", tok, tok, o1)>>
        f2 == Append(f1, Fetch("readme", tok, tok, o2))
    IN  IF o1 = "neterr" THEN Invalid(MsgNetworkError, f1)
        ELSE IF o1 = "403" THEN Invalid(MsgPermissionDenied, f1)
        ELSE IF o1 = "404" THEN Invalid(MsgSheetNotFound, f1)
        ELSE IF o1 # "ok" THEN Invalid(AccessFailed(o1), f1)
        ELSE IF ~ReadmeTabFound[d] THEN Invalid(MsgReadmeNotFound, f1)
        ELSE IF o2 = "neterr" THEN Invalid(MsgNetworkError, f2)
        ELSE IF o2 # "ok" THEN Invalid(MsgReadmeReadFailed, f2)
        ELSE IF Len(r.readme) = 0 THEN Invalid(MsgReadmeEmpty, f2)
        ELSE validateParsed(ParsedReadme[d], r.title, f2)

\* getSheetName: null without a token, on a rejected fetch and on any
\* response that is not ok.
getSheetName(tok, d, o) ==
    LET r == Document(d) IN
    IF tok = NoToken THEN [isNull |-> TRUE, name |-> <<>>, log |-> <<>>]
    ELSE [isNull |-> o # "ok",
          name |-> IF o = "ok" THEN r.title ELSE <<>>,
          log |-> <<Fetch("name", tok, tok, o)>>]

(***************************************************************************)
(* chrome.storage.local: the keys sheetStructure_<id> and                  *)
(* sheetStructure_timestamp_<id> of every sheet id.                        *)
(***************************************************************************)
StoreIds == Sheets \cup {"timestamp_s1"}
structureKey(sheetId) == "sheetStructure_" \o sheetId
timestampKey(sheetId) == "sheetStructure_timestamp_" \o sheetId
StoreKeys == {structureKey(id) : id \in StoreIds} \cup {timestampKey(id) : id \in StoreIds}

\* The values the store holds under a key: nothing, a number (Date.now())
\* or an object (a structure).
JsUndefined == [kind |-> "undefined"]
JsNumber(n) == [kind |-> "number", n |-> n]
JsObject(v) == [kind |-> "object", v |-> v]

\* !x
Falsy(x) == x.kind = "undefined" \/ (x.kind = "number" /\ x.n = 0)

\* x < n for a number n: false when x converts to NaN.
JsLess(x, n) == x.kind = "number" /\ x.n < n

EmptyStore == [k \in StoreKeys |-> JsUndefined]

\* chrome.storage.local.set of the two keys of a sheet.
storeSheetStructure(st, sheetId, structure, t) ==
    [k \in StoreKeys |->
        IF k = timestampKey(sheetId) THEN JsNumber(t)
        ELSE IF k = structureKey(sheetId) THEN JsObject(structure)
        ELSE st[k]]

\* What the caller of getSheetStructure gets for a stored value.
Stored(x) == IF x.kind = "object" THEN x.v ELSE x

\* getSheetStructure: null when nothing is stored under the structure key
\* or when the value under the timestamp key is less than now - 24 hours.
getSheetStructureOf(structure, timestamp, t) ==
    IF Falsy(structure) THEN NoStructure
    ELSE IF JsLess(timestamp, t - STRUCTURE_MAX_AGE) THEN NoStructure
    ELSE Stored(structure)

getSheetStructure(st, sheetId, t) ==
    getSheetStructureOf(st[structureKey(sheetId)], st[timestampKey(sheetId)], t)

(***************************************************************************)
(* MessageHandler: responses, the response cache, the friendly errors.     *)
(***************************************************************************)
NoData == [null |-> TRUE]
S_EventDashboard == <<"E","v","e","n","t"," ","D","a","s","h","b","o","a","r","d">>

\* {success: true, ...}, {success: false, error} and {error}
Success(eventName, data) ==
    [success |-> "true", error |-> Null, eventName |-> eventName, data |-> data]
Failure(error) ==
    [success |-> "false", error |-> error, eventName |-> <<>>, data |-> NoData]
ErrorOnly(error) ==
    [success |-> "absent", error |-> error, eventName |-> <<>>, data |-> NoData]
DataOnly(data) ==
    [success |-> "absent", error |-> Null, eventName |-> <<>>, data |-> data]

GetOperations ==
    {"AUTH_STATUS", "GET_CURRENT_EVENT", "READ_EVENT_DATA",
     "GET_ACTION_SUGGESTIONS", "VALIDATE_SHEET", "GET_SHEET_INFO"}
isGetOperation(type) == type \in GetOperations

\* The cache key of a message: its type and its payload.
CacheKeys == {"VALIDATE_SHEET", "READ_EVENT_DATA"} \X Sheets
getCacheKey(type, sheetId) == <<type, sheetId>>

NoCached == [present |-> FALSE]
EmptyCache == [k \in CacheKeys |-> NoCached]

\* getFromCache: the data, or null after deleting an entry older than
\* CACHE_DURATION.
getFromCache(cache, key, t) ==
    LET cached == cache[key]
    IN  IF ~cached.present THEN [hit |-> FALSE, cache |-> cache]
        ELSE IF t - cached.timestamp > CACHE_DURATION
        THEN [hit |-> FALSE, cache |-> [cache EXCEPT ![key] = NoCached]]
        ELSE [hit |-> TRUE, cache |-> cache]

setCache(cache, key, data, t) ==
    [cache EXCEPT ![key] = [present |-> TRUE, data |-> data, timestamp |-> t]]

\* clearSheetsCache: every key whose payload names the sheet.
clearSheetsCache(cache, sheetId) ==
    [k \in CacheKeys |-> IF k[2] = sheetId THEN NoCached ELSE cache[k]]

FriendlySignIn == "Please sign in to your Google account to continue."
FriendlyPermission == "You don't have permission to access this resource. Please check your Google account permissions."
FriendlyNetwork == "Network error. Please check your internet connection and try again."
FriendlyNotFound == "The requested Google Sheet could not be found. Please check the sheet ID and your permissions."
FriendlyGeneric == "Something went wrong. Please try again or contact support if the problem persists."

MsgStructureNotFound == "Sheet structure not found. Please reconnect the sheet."
MsgSheetIdRequired == "Sheet ID required"
MsgSheetIdAndDataRequired == "Sheet ID and data required"
MsgSheetIdAndEntryRequired == "Sheet ID and log entry required"

\* Which test of getUserFriendlyError the lower-cased message passes first.
\* The prefixes the service puts before a message ("Failed to read event
\* data: " and the like) mention none of the words tested.
MentionsAuthentication == {MsgAuthExpired, NoAuthTokenError}
MentionsPermission == {MsgPermissionDenied}
MentionsNetwork == {MsgNetworkError, FetchRejected}
RateLimitExceeded == "Rate limit exceeded. Please slow down your requests."
MentionsRateLimit == {RateLimitExceeded}
FriendlyRateLimit == "Too many requests. Please wait a moment before trying again."
MentionsSheetNotFound ==
    {MsgSheetNotFound, MsgReadmeNotFound, MsgStructureNotFound,
     AccessFailed("404"), UpdateError("404"), AppendError("404")}

\* dev: process.env.NODE_ENV is 'development'.
getUserFriendlyError(prefix, message, messageType, dev) ==
    IF message \in MentionsAuthentication THEN FriendlySignIn
    ELSE IF message \in MentionsPermission THEN FriendlyPermission
    ELSE IF message \in MentionsNetwork THEN FriendlyNetwork
    ELSE IF message \in MentionsRateLimit THEN FriendlyRateLimit
    ELSE IF message \in MentionsSheetNotFound THEN FriendlyNotFound
    ELSE IF dev THEN messageType \o " failed: " \o prefix \o message
    ELSE FriendlyGeneric

\* The { error } of handleMessage's catch block, in either build.
Caught(prefix, message, messageType) ==
    {ErrorOnly(getUserFriendlyError(prefix, message, messageType, dev)) :
        dev \in BOOLEAN}

(***************************************************************************)
(* The handlers behind handleMessage, as functions of the token, the       *)
(* remote sheet and the answers to the fetches they issue.                 *)
(***************************************************************************)
NotValidated ==
    [ran |-> FALSE, isValid |-> FALSE, structure |-> NoStructure, error |-> Null]
Validated(v) ==
    [ran |-> TRUE, isValid |-> v.isValid, structure |-> v.structure, error |-> v.error]

\* handleEventMessage, case 'VALIDATE_SHEET': the case handleMessage reaches,
\* isEventMessage being tested before isSheetsMessage.  The result object of
\* validateSheetStructure is truthy whatever its isValid.
validateSheetAnswer(isValid, sheetInfo) ==
    [response |-> Success(IF sheetInfo.isNull \/ sheetInfo.name = <<>>
                          THEN S_EventDashboard ELSE sheetInfo.name,
                          NoData),
     validation |-> Validated(isValid),
     log |-> isValid.log \o sheetInfo.log]

handleValidateSheet(tok, sheetId, rem, o1, o2, o3) ==
    IF sheetId = NoSheet
    THEN [response |-> Failure("Sheet validation failed: " \o MsgSheetIdRequired),
          validation |-> NotValidated, log |-> <<>>]
    ELSE validateSheetAnswer(validateSheetStructure(tok, rem[sheetId], o1, o2),
                             getSheetName(tok, rem[sheetId], o3))

\* readEventSheet up to the loop over the tabs: it throws, or it goes on
\* with the stored structure.
readEventSheetWith(validation, structure) ==
        IF ~validation.isValid
        THEN [throws |-> TRUE, error |-> validation.error,
              validation |-> Validated(validation), log |-> validation.log,
              structure |-> NoStructure]
        ELSE IF structure = NoStructure
        THEN [throws |-> TRUE, error |-> MsgStructureNotFound,
              validation |-> Validated(validation), log |-> validation.log,
              structure |-> NoStructure]
        ELSE [throws |-> FALSE, error |-> Null,
              validation |-> Validated(validation), log |-> validation.log,
              structure |-> structure]

readEventSheetHead(tok, sheetId, rem, st, t, o1, o2) ==
    readEventSheetWith(validateSheetStructure(tok, rem[sheetId], o1, o2),
                       getSheetStructure(st, sheetId, t))

\* The sections of an update and the payloads the model sends.
Sections == <<"overview", "budget", "vendors", "timeline">>
UpdatePayloads == { {"overview"}, {"vendors", "timeline"} }

RECURSIVE UpdateLog(_, _, _, _)
UpdateLog(tok, sections, outs, i) ==
    IF i > Len(Sections) THEN <<>>
    ELSE (IF Sections[i] \in sections
          THEN updateRange(tok, outs[Sections[i]]).log ELSE <<>>)
         \o UpdateLog(tok, sections, outs, i + 1)

\* updateEventData: one updateRange per section given, all started before
\* any is awaited; Promise.all rejects with the error of the section that
\* rejects first, here the section named first when it is one that fails.
updateEventData(tok, sections, outs, first) ==
    LET failed == {s \in sections : updateRange(tok, outs[s]).result = "throw"}
        log == UpdateLog(tok, sections, outs, 1)
    IN  IF failed = {} THEN [throws |-> FALSE, error |-> Null, log |-> log]
        ELSE [throws |-> TRUE,
              error |-> updateRange(tok, outs[IF first \in failed THEN first
                                              ELSE CHOOSE s \in failed : TRUE]).error,
              log |-> log]

\* The sections that may be the first to reject.
FirstToReject(tok, sections, outs) ==
    LET failed == {s \in sections : updateRange(tok, outs[s]).result = "throw"}
    IN  IF failed = {} THEN {"none"} ELSE failed

\* appendToEventLog: one appendToSheet.
appendToEventLog(tok, o) ==
    LET c == appendToSheet(tok, o)
    IN  [throws |-> c.result = "throw", error |-> c.error, log |-> c.log]

(***************************************************************************)
(* What handling the last message did: when, with a token or without,      *)
(* from the response cache or not, the validation it ran, the kinds of the *)
(* fetches it issued in order, and the response.                           *)
(***************************************************************************)
Kinds(log) == [i \in 1..Len(log) |-> log[i].kind]

NoMessage ==
    [type |-> "none", sheet |-> NoSheet, at |-> 0, hadToken |-> FALSE,
     fromCache |-> FALSE, fresh |-> FALSE, validation |-> NotValidated,
     log |-> <<>>, pending |-> FALSE, response |-> ErrorOnly(Null)]

Handled(type, sheetId, fromCache, fresh, validation, log, response) ==
    [type |-> type, sheet |-> sheetId, at |-> now, hadToken |-> token # NoToken,
     fromCache |-> fromCache, fresh |-> fresh, validation |-> validation,
     log |-> Kinds(log), pending |-> FALSE, response |-> response]

NoRequest == [pc |-> "idle"]

\* No tab has a row; no call of readEventSheet or updateEventData yet.
NoTabValues == <<>>
NoSheetCall ==
    [op |-> "none", pc |-> "idle", sheet |-> NoSheet, hadStructure |-> FALSE,
     structure |-> NoStructure, log |-> <<>>, outs |-> <<>>, sheetData |-> <<>>,
     throws |-> FALSE, error |-> Null, eventData |-> [eventName |-> <<>>],
     range |-> "", values |-> <<>>, issued |-> 0]

\* README values not parsed yet.
NotParsed == [done |-> FALSE]

\* Nothing stored for any sheet id yet, and no getSheetStructure call.
NoPut == [done |-> FALSE, document |-> "none"]
NoGet == [called |-> FALSE]
NoStoreOps == [put |-> [id \in StoreIds |-> NoPut], get |-> NoGet]

(***************************************************************************)
(* Initial state: nobody signed in, nothing stored, nothing cached.        *)
(***************************************************************************)
\* The variables of the authentication service and of the logger, where
\* neither is looked at: no token stored, no call made, no entry logged, the
\* level INFO.
NoStoredToken == [present |-> FALSE]
NoAuthCall == [op |-> "none"]

\* enum LogLevel.
DEBUG == 0
INFO == 1
WARN == 2
ERROR == 3

\* The variables of the other specifications, at rest.
SenderIds == {"unknown", "0"}
NoSenderData == [present |-> FALSE, count |-> 0, resetTime |-> 0]
NoWindow == [open |-> FALSE, start |-> 0, seen |-> 0, accepted |-> 0, refusedBefore |-> FALSE]

NoVersions == [sheet |-> [s \in Sheets |-> 0], cached |-> [s \in Sheets |-> 0]]

\* The calls of startBulkSending that a run of the model follows.
Runs == {1, 2}
NoProgress ==
    [totalGuests |-> 0, currentGuest |-> 0, successCount |-> 0, errorCount |-> 0,
     currentGuestName |-> "", isComplete |-> FALSE]
\* currentSendingProcess = null.  whatsappTabId 0 stands for undefined.
NoProcess ==
    [present |-> FALSE, guests |-> <<>>, progress |-> NoProgress, results |-> <<>>,
     whatsappTabId |-> 0, owner |-> 0]
NoReport ==
    [results |-> <<>>, total |-> 0, successful |-> 0, failed |-> 0, totalGuests |-> 0]
IdleRun ==
    [pc |-> "idle", guests |-> <<>>, i |-> 0, outcome |-> "none", error |-> "",
     reported |-> NoReport]

ExtraIdle ==
    /\ requestCounts = [s \in SenderIds |-> NoSenderData]
    /\ rateWindows = [s \in SenderIds |-> NoWindow]
    /\ versions = NoVersions
    /\ currentSendingProcess = NoProcess
    /\ runs = [r \in Runs |-> IdleRun]

InitialRemote == [s \in Sheets |-> IF s = "s1" THEN "budget" ELSE "tasks"]

Init ==
    /\ token = NoToken
    /\ call = IdleCall
    /\ remote = InitialRemote
    /\ store = EmptyStore
    /\ responseCache = EmptyCache
    /\ now = 0
    /\ ticks = 0
    /\ req = NoRequest
    /\ last = NoMessage
    /\ storeOps = NoStoreOps
    /\ readmeValues = <<>>
    /\ readmeResult = NotParsed
    /\ tabValues = NoTabValues
    /\ sheetCall = NoSheetCall
    /\ authToken = NoStoredToken
    /\ authCall = NoAuthCall
    /\ logs = <<>>
    /\ currentLevel = INFO
    /\ ExtraIdle

(***************************************************************************)
(* The environment: the clock, the token capability, the remote sheets.    *)
(***************************************************************************)
TimeSteps == {CACHE_DURATION, CACHE_DURATION + 1}

Tick ==
    /\ ticks < MaxTicks
    /\ \E d \in TimeSteps : now' = now + d
    /\ ticks' = ticks + 1
    /\ last' = NoMessage
    /\ UNCHANGED <<token, call, remote, store, responseCache, req, unitVars>>

\* Sign-in and sign-out.
SignInOut ==
    /\ token' = IF token = NoToken THEN "t1" ELSE NoToken
    /\ last' = NoMessage
    /\ UNCHANGED <<call, remote, store, responseCache, now, ticks, req, unitVars>>

\* Sign-in, sign-out, or a refreshed token.
TokenChanges ==
    /\ \E tk \in TokenValues \ {token} : token' = tk
    /\ UNCHANGED <<call, remote, store, responseCache, now, ticks, req, last, unitVars>>

\* The owner edits a sheet.
EditedSheets == {"s1"}

RemoteEdit ==
    /\ call.pc = "idle"
    /\ \E s \in EditedSheets : \E d \in Documents \ {remote[s]} :
           remote' = [remote EXCEPT ![s] = d]
    /\ last' = NoMessage
    /\ UNCHANGED <<token, call, store, responseCache, now, ticks, req, unitVars>>

(***************************************************************************)
(* SpecClient: the service's HTTP methods, called one at a time.           *)
(***************************************************************************)
CallFree == call.pc = "idle"

\* The caller takes the result of the finished call.
ReturnCall ==
    /\ call.pc = "done"
    /\ call' = IdleCall
    /\ UNCHANGED <<token, remote, store, responseCache, now, ticks, req, last, unitVars>>

StartReadRange ==
    /\ CallFree
    /\ call' = EnterCall("readRange", token)
    /\ UNCHANGED <<token, remote, store, responseCache, now, ticks, req, last, unitVars>>

\* One iteration of the loop: the fetch, its handling and the sleep.
ReadRangeFetch ==
    /\ call.op = "readRange"
    /\ call.pc = "loop"
    /\ \E o \in Outcomes : call' = readRangeAttempt(call, o, token)
    /\ UNCHANGED <<token, remote, store, responseCache, now, ticks, req, last, unitVars>>

CallUpdateRange ==
    /\ CallFree
    /\ \E o \in Outcomes : call' = updateRange(token, o)
    /\ UNCHANGED <<token, remote, store, responseCache, now, ticks, req, last, unitVars>>

CallAppendToSheet ==
    /\ CallFree
    /\ \E o \in Outcomes : call' = appendToSheet(token, o)
    /\ UNCHANGED <<token, remote, store, responseCache, now, ticks, req, last, unitVars>>

\* A variant of CallValidateSheetStructure in which the service itself stores
\* the structure of a valid sheet.
CallValidateSheetStructureStoring ==
    /\ call.pc = "idle"
    /\ \E s \in Sheets : \E o1, o2 \in Outcomes :
       \E v \in {validateSheetStructure(token, remote[s], o1, o2)} :
         /\ call' = [IdleCall EXCEPT !.op = "validateSheetStructure", !.pc = "done",
                                     !.tokenCalls = 1, !.log = v.log, !.token = token,
                                     !.sheet = s,
                                     !.result = IF v.isValid THEN "valid" ELSE "invalid",
                                     !.error = v.error]
         /\ store' = IF v.isValid
                     THEN storeSheetStructure(store, s, v.structure, now)
                     ELSE store
    /\ UNCHANGED <<token, remote, responseCache, now, ticks, req, last, unitVars>>

\* validateSheetStructure as a call: it returns, valid or not, and never throws.
ValidateCall(v) ==
    [IdleCall EXCEPT !.op = "validateSheetStructure", !.pc = "done",
                     !.tokenCalls = 1, !.log = v.log,
                     !.result = IF v.isValid THEN "valid" ELSE "invalid",
                     !.error = v.error]

CallValidateSheetStructure ==
    /\ CallFree
    /\ \E s \in Sheets : \E o1, o2 \in Outcomes :
           call' = [ValidateCall(validateSheetStructure(token, remote[s], o1, o2))
                        EXCEPT !.token = token, !.sheet = s]
    /\ UNCHANGED <<token, remote, store, responseCache, now, ticks, req, last, unitVars>>

NextClient ==
    \/ StartReadRange
    \/ ReadRangeFetch
    \/ CallUpdateRange
    \/ CallAppendToSheet
    \/ CallValidateSheetStructure
    \/ ReturnCall
    \/ TokenChanges
    \/ RemoteEdit

SpecClient == Init /\ [][NextClient]_vars

(***************************************************************************)
(* Properties of the service's HTTP methods, checked under SpecClient.     *)
(***************************************************************************)

\* C5: a readRange attempt answered 401, 403 or 404 aborts the call at once:
\* that attempt is the last one, the call has ended with a throw, and no
\* sleep follows the attempt (a call that stops at its first attempt has
\* slept not at all).
C5_FatalStatusAborts ==
    call.op = "readRange" =>
        \A i \in 1..Len(call.log) :
            call.log[i].out \in {"401", "403", "404"} =>
                /\ i = Len(call.log)
                /\ call.pc = "done"
                /\ call.result = "throw"
                /\ Len(call.sleeps) = i - 1

C7_WritesRetried ==
    ( /\ call.op \in {"updateRange", "appendToSheet"}
      /\ call.pc = "done"
      /\ Len(call.log) >= 1
      /\ call.log[1].out \in {"429", "neterr"} )
    => Len(call.log) > 1

\* C8: a readRange that throws after MAX_RETRIES fetches throws the error of
\* its last fetch: the rejection when the fetch rejected, the error of the
\* status otherwise; in particular the value thrown is never undefined.
C8_LastErrorSurfaced ==
    ( /\ call.op = "readRange"
      /\ call.pc = "done"
      /\ call.result = "throw"
      /\ Len(call.log) = MAX_RETRIES )
    => LET o == call.log[Len(call.log)].out
       IN  /\ call.error # Undefined
           /\ call.error = IF o = "neterr" THEN FetchRejected ELSE SheetsApiError(o)

\* C9: a method called while getAuthToken yields null ends without a fetch:
\* readRange, updateRange and appendToSheet throw 'No authentication token
\* available', validateSheetStructure answers invalid with 'Authentication
\* expired. Please sign in again.'
C9_NoTokenNoFetch ==
    (call.pc # "idle" /\ call.token = NoToken) =>
        /\ call.log = <<>>
        /\ call.pc = "done"
        /\ call.op \in {"readRange", "updateRange", "appendToSheet"} =>
               call.result = "throw" /\ call.error = NoAuthTokenError
        /\ call.op = "validateSheetStructure" =>
               call.result = "invalid" /\ call.error = MsgAuthExpired

\* A validateSheetStructure call made signed out, ended without a fetch.
C9_Witness ==
    /\ call.op = "validateSheetStructure"
    /\ call.pc = "done"
    /\ call.token = NoToken
    /\ call.log = <<>>
    /\ call.result = "invalid"

\* C10: readRange asks getAuthToken once per fetch, so that every fetch
\* carries the token the capability holds when the fetch is issued.
C10_TokenPerAttempt ==
    (call.op = "readRange" /\ Len(call.log) >= 1) =>
        /\ call.tokenCalls = Len(call.log)
        /\ \A i \in 1..Len(call.log) : call.log[i].tok = call.log[i].cur

\* C13: a validateSheetStructure call, whether it answers valid or invalid,
\* leaves chrome.storage.local as it was.
C13_ValidateWritesNothing ==
    [][ (call.pc = "idle" /\ call'.op = "validateSheetStructure") => store' = store ]_vars

\* A validateSheetStructure call that answered valid, with nothing stored.
C13_Witness ==
    /\ call.op = "validateSheetStructure"
    /\ call.pc = "done"
    /\ call.result = "valid"
    /\ store = EmptyStore

HasFresh(sheetId) ==
    sheetId \in Sheets /\ getSheetStructure(store, sheetId, now) # NoStructure

ReceiveValidateSheet ==
    /\ \E sheetId \in Sheets :
         LET type == "VALIDATE_SHEET"
             key == getCacheKey(type, sheetId)
             looked == getFromCache(responseCache, key, now)
         IN  IF looked.hit
             THEN /\ responseCache' = looked.cache
                  /\ last' = Handled(type, sheetId, TRUE, HasFresh(sheetId),
                                     NotValidated, <<>>, responseCache[key].data)
             ELSE \E o \in ValidateAnswers(token) : \E o3 \in NameAnswers(token) :
                  \E h \in {handleValidateSheet(token, sheetId, remote, o[1], o[2], o3)} :
                    /\ responseCache' = setCache(looked.cache, key, h.response, now)
                    /\ last' = Handled(type, sheetId, FALSE, HasFresh(sheetId),
                                       h.validation, h.log, h.response)
    /\ UNCHANGED <<token, call, remote, store, now, ticks, req, unitVars>>

\* handleSheetsMessage, case 'READ_EVENT_DATA'.  readEventSheet throws before
\* it reads a tab, or goes on to read the tabs of the stored structure.
ReceiveReadEventData ==
    /\ req.pc = "idle"
    /\ \E sheetId \in Sheets :
         LET type == "READ_EVENT_DATA"
             key == getCacheKey(type, sheetId)
             looked == getFromCache(responseCache, key, now)
         IN  /\ responseCache' = looked.cache
             /\ IF looked.hit
                THEN /\ req' = req
                     /\ last' = Handled(type, sheetId, TRUE, HasFresh(sheetId),
                                        NotValidated, <<>>, responseCache[key].data)
                ELSE \E o \in ValidateAnswers(token) :
                     \E head \in {readEventSheetHead(token, sheetId, remote, store, now,
                                                      o[1], o[2])} :
                           IF head.throws
                           THEN /\ req' = req
                                /\ \E e \in Caught("Failed to read event data: ",
                                                   head.error, type) :
                                     last' = Handled(type, sheetId, FALSE,
                                                     HasFresh(sheetId), head.validation,
                                                     head.log, e)
                           ELSE /\ req' = [pc |-> "reading", sheet |-> sheetId,
                                           structure |-> head.structure]
                                /\ last' = [Handled(type, sheetId, FALSE,
                                                    HasFresh(sheetId), head.validation,
                                                    head.log, ErrorOnly(Null))
                                                EXCEPT !.pending = TRUE]
    /\ UNCHANGED <<token, call, remote, store, now, ticks, unitVars>>

\* handleSheetsMessage, case 'UPDATE_EVENT_DATA'.
ReceiveUpdateEventData ==
    /\ \E sheetId \in SheetArgs :
         LET type == "UPDATE_EVENT_DATA"
         IN  IF sheetId = NoSheet
             THEN /\ responseCache' = responseCache
                  /\ \E e \in Caught("", MsgSheetIdAndDataRequired, type) :
                       last' = Handled(type, sheetId, FALSE, FALSE, NotValidated, <<>>, e)
             ELSE \E sections \in UpdatePayloads :
                  \E outs \in [sections -> WriteAnswers(token)] :
                  \E first \in FirstToReject(token, sections, outs) :
                  \E u \in {updateEventData(token, sections, outs, first)} :
                        IF u.throws
                        THEN /\ responseCache' = responseCache
                             /\ \E e \in Caught("Failed to update event data: ",
                                                u.error, type) :
                                  last' = Handled(type, sheetId, FALSE, HasFresh(sheetId),
                                                  NotValidated, u.log, e)
                        ELSE /\ responseCache' = clearSheetsCache(responseCache, sheetId)
                             /\ last' = Handled(type, sheetId, FALSE, HasFresh(sheetId),
                                                NotValidated, u.log, Success(<<>>, NoData))
    /\ UNCHANGED <<token, call, remote, store, now, ticks, req, unitVars>>

\* handleSheetsMessage, case 'APPEND_LOG'.
ReceiveAppendLog ==
    /\ \E sheetId \in SheetArgs :
         LET type == "APPEND_LOG"
         IN  IF sheetId = NoSheet
             THEN \E e \in Caught("", MsgSheetIdAndEntryRequired, type) :
                    last' = Handled(type, sheetId, FALSE, FALSE, NotValidated, <<>>, e)
             ELSE \E o \in WriteAnswers(token) :
                  \E a \in {appendToEventLog(token, o)} :
                        IF a.throws
                        THEN \E e \in Caught("Failed to add log entry: ", a.error, type) :
                               last' = Handled(type, sheetId, FALSE, HasFresh(sheetId),
                                               NotValidated, a.log, e)
                        ELSE last' = Handled(type, sheetId, FALSE, HasFresh(sheetId),
                                             NotValidated, a.log, Success(<<>>, NoData))
    /\ UNCHANGED <<token, call, remote, store, responseCache, now, ticks, req, unitVars>>

Next ==
    \/ ReceiveValidateSheet
    \/ ReceiveReadEventData
    \/ ReceiveUpdateEventData
    \/ ReceiveAppendLog
    \/ Tick
    \/ SignInOut
    \/ RemoteEdit

Spec == Init /\ [][Next]_vars

(***************************************************************************)
(* Properties of the message handler, checked under Spec.                  *)
(***************************************************************************)

\* C1: a READ_EVENT_DATA that is handled (not answered from the response
\* cache) for a sheet with no fresh stored structure runs the validation,
\* and when the validation succeeds the structure is stored and the answer
\* is no error: the read never fails for lack of a stored structure.
C1_ReadStoresOnSuccess ==
    ( /\ last.type = "READ_EVENT_DATA"
      /\ ~last.fromCache
      /\ ~last.fresh )
    => /\ last.validation.ran
       /\ last.validation.isValid =>
            /\ store[structureKey(last.sheet)].kind = "object"
            /\ last.response.error = Null

\* C2: after a VALIDATE_SHEET that was handled and whose validation
\* succeeded, the store holds for that sheet the structure just parsed and
\* the time of the validation.
C2_ValidateOverwritesStore ==
    ( /\ last.type = "VALIDATE_SHEET"
      /\ ~last.fromCache
      /\ last.validation.ran
      /\ last.validation.isValid
      /\ last.response.success = "true" )
    => /\ store[structureKey(last.sheet)] = JsObject(last.validation.structure)
       /\ store[timestampKey(last.sheet)] = JsNumber(last.at)

\* C3: every VALIDATE_SHEET received while signed in runs the validation,
\* whose first fetch is the metadata fetch; none is answered from the
\* response cache.
C3_ValidateAlwaysFetches ==
    (last.type = "VALIDATE_SHEET" /\ last.hadToken) =>
        /\ ~last.fromCache
        /\ last.validation.ran
        /\ Len(last.log) >= 1
        /\ last.log[1] = "meta"

\* C4: a VALIDATE_SHEET whose validation, run with a token, says the sheet is
\* not valid is answered with an error and not with success: true.
C4_InvalidNeverSucceeds ==
    ( /\ last.type = "VALIDATE_SHEET"
      /\ last.hadToken
      /\ last.validation.ran
      /\ ~last.validation.isValid )
    => /\ last.response.success # "true"
       /\ last.response.error # Null

(***************************************************************************)
(* SpecStore: the stored structures.  handleSheetsMessage's case           *)
(* 'VALIDATE_SHEET' stores the structure of a valid sheet with Date.now(), *)
(* getSheetStructure reads it back, and the clock advances by 1 ms or by   *)
(* 1 ms less than 24 hours, so that a read falls just before, on and just  *)
(* after the age of 24 hours.  A sheet id is any string the popup sends:   *)
(* EventSetup.extractSheetId returns the trimmed input as it is.           *)
(***************************************************************************)
MaxStoreTicks == 3
StoreTimeSteps == {1, STRUCTURE_MAX_AGE - 1}

StoreRemote == [id \in StoreIds |-> IF id = "s1" THEN "budget" ELSE "tasks"]

InitStore ==
    /\ token = "t1"
    /\ call = IdleCall
    /\ remote = StoreRemote
    /\ store = EmptyStore
    /\ responseCache = EmptyCache
    /\ now = 1
    /\ ticks = 0
    /\ req = NoRequest
    /\ last = NoMessage
    /\ storeOps = NoStoreOps
    /\ readmeValues = <<>>
    /\ readmeResult = NotParsed
    /\ tabValues = NoTabValues
    /\ sheetCall = NoSheetCall
    /\ authToken = NoStoredToken
    /\ authCall = NoAuthCall
    /\ logs = <<>>
    /\ currentLevel = INFO
    /\ ExtraIdle

\* A variant of StoreValidatedStructure in which the structure of a valid
\* sheet carries the time of its validation.
StoreValidatedStructureStamped ==
    /\ \E sheetId \in StoreIds : \E o \in ValidateAnswers(token) :
       \E result \in {validateSheetStructure(token, remote[sheetId], o[1], o[2])} :
         IF result.isValid
         THEN \E stamped \in {[tabs |-> result.structure.tabs,
                                sheetTitle |-> result.structure.sheetTitle,
                                totalTabs |-> result.structure.totalTabs,
                                validatedAt |-> now]} :
              /\ store' = storeSheetStructure(store, sheetId, stamped, now)
              /\ storeOps' = [put |-> [storeOps.put EXCEPT ![sheetId] =
                                          [done |-> TRUE,
                                           document |-> remote[sheetId],
                                           structure |-> stamped,
                                           at |-> now]],
                              get |-> NoGet]
         ELSE /\ store' = store
              /\ storeOps' = [storeOps EXCEPT !.get = NoGet]
    /\ UNCHANGED <<token, call, remote, responseCache, now, ticks, req, last,
                   parserVars, sheetVars,
                   authVars, loggerVars, extraVars>>

\* handleSheetsMessage, case 'VALIDATE_SHEET', as far as the store goes: the
\* structure of a valid sheet is stored, nothing is stored for another.  The
\* document that was validated is noted with what was stored.
StoreValidatedStructure ==
    /\ \E sheetId \in StoreIds : \E o \in ValidateAnswers(token) :
       \E result \in {validateSheetStructure(token, remote[sheetId], o[1], o[2])} :
         IF result.isValid
         THEN /\ store' = storeSheetStructure(store, sheetId, result.structure, now)
              /\ storeOps' = [put |-> [storeOps.put EXCEPT ![sheetId] =
                                          [done |-> TRUE,
                                           document |-> remote[sheetId],
                                           structure |-> result.structure,
                                           at |-> now]],
                              get |-> NoGet]
         ELSE /\ store' = store
              /\ storeOps' = [storeOps EXCEPT !.get = NoGet]
    /\ UNCHANGED <<token, call, remote, responseCache, now, ticks, req, last,
                   parserVars, sheetVars,
                   authVars, loggerVars, extraVars>>

CallGetSheetStructure ==
    /\ \E sheetId \in StoreIds :
         storeOps' = [storeOps EXCEPT !.get =
                         [called |-> TRUE, id |-> sheetId,
                          value |-> getSheetStructure(store, sheetId, now)]]
    /\ UNCHANGED <<token, call, remote, store, responseCache, now, ticks, req, last,
                   parserVars, sheetVars,
                   authVars, loggerVars, extraVars>>

StoreTick ==
    /\ ticks < MaxStoreTicks
    /\ \E d \in StoreTimeSteps : now' = now + d
    /\ ticks' = ticks + 1
    /\ storeOps' = [storeOps EXCEPT !.get = NoGet]
    /\ UNCHANGED <<token, call, remote, store, responseCache, req, last,
                   parserVars, sheetVars,
                   authVars, loggerVars, extraVars>>

\* The sheet s1 is edited between validations: RemoteEdit.
NextStore ==
    \/ StoreValidatedStructure
    \/ CallGetSheetStructure
    \/ StoreTick
    \/ RemoteEdit

SpecStore == InitStore /\ [][NextStore]_vars

\* C11: a structure stored at time T, its two keys untouched since, is
\* returned by getSheetStructure at every time T' with T' - T < 24 hours and
\* is not returned (null) at every T' with T' - T >= 24 hours, T' - T =
\* 24 hours included.
C11_FreshUnder24h ==
    LET g == storeOps.get
    IN  ( /\ g.called
          /\ storeOps.put[g.id].done
          /\ store[structureKey(g.id)] = JsObject(storeOps.put[g.id].structure)
          /\ store[timestampKey(g.id)] = JsNumber(storeOps.put[g.id].at) )
        => /\ now - storeOps.put[g.id].at < STRUCTURE_MAX_AGE =>
                  g.value = storeOps.put[g.id].structure
           /\ now - storeOps.put[g.id].at >= STRUCTURE_MAX_AGE =>
                  g.value = NoStructure

\* C12: what is stored for one sheet id is kept apart from what is stored
\* for another: a getSheetStructure for a sheet id returns nothing but a
\* structure that was stored for that sheet id, never a structure or a
\* timestamp stored for a different one.
C12_NoMixing ==
    LET g == storeOps.get
    IN  (g.called /\ g.value # NoStructure) =>
            /\ storeOps.put[g.id].done
            /\ g.value = storeOps.put[g.id].structure

(***************************************************************************)
(* parseFlexibleEventData.  A row is a sequence of cells, a cell a string; *)
(* numbers are counted in hundredths, so that 12.5 is 1250.                *)
(***************************************************************************)
\* row[k], k counted from 0 as in the source; '' for a cell that is absent,
\* which every use treats as it treats ''.
Cell(row, k) == IF k + 1 <= Len(row) THEN row[k + 1] ELSE <<>>

\* Array.prototype.slice(start).
JsSlice(s, start) ==
    LET from == IF start < 0
                THEN (IF Len(s) + start < 0 THEN 0 ELSE Len(s) + start)
                ELSE (IF start > Len(s) THEN Len(s) ELSE start)
    IN  SubSeq(s, from + 1, Len(s))

RECURSIVE DigitPrefixLen(_)
DigitPrefixLen(s) ==
    IF s # <<>> /\ IsDigit(Head(s)) THEN 1 + DigitPrefixLen(Tail(s)) ELSE 0

\* parseFloat of the characters 0-9, '.' and '-' of the value, 0 for NaN:
\* a sign, digits, then a point and digits; what follows is not read.
parseNumber(value) ==
    LET cleaned == SelectSeq(value, LAMBDA ch : IsDigit(ch) \/ ch \in {".", "-"})
        neg == cleaned # <<>> /\ Head(cleaned) = "-"
        u == IF neg THEN Tail(cleaned) ELSE cleaned
        n == DigitPrefixLen(u)
        rest == SubSeq(u, n + 1, Len(u))
        frac == IF rest # <<>> /\ Head(rest) = "." THEN Tail(rest) ELSE <<>>
        m == DigitPrefixLen(frac)
        hundredths == (IF m >= 1 THEN 10 * DigitValue(frac[1]) ELSE 0)
                      + (IF m >= 2 THEN DigitValue(frac[2]) ELSE 0)
        magnitude == 100 * DigitsValue(u, 0) + hundredths
    IN  IF n = 0 /\ m = 0 THEN 0
        ELSE IF neg THEN 0 - magnitude ELSE magnitude

parsePriority(value) ==
    LET lower == toLowerCase(value)
    IN  IF includes(lower, <<"h", "i", "g", "h">>) \/ includes(lower, <<"u", "r", "g", "e", "n", "t">>) THEN "high"
        ELSE IF includes(lower, <<"l", "o", "w">>) THEN "low"
        ELSE "medium"

\* The loop over the rows of an overview tab: acc holds eventName, eventDate
\* and budgetTotal among the values extracted so far.
RECURSIVE overviewRows(_, _)
overviewRows(acc, rows) ==
    IF rows = <<>> THEN acc
    ELSE LET row == Head(rows)
             key == toLowerCase(Cell(row, 0))
         IN  overviewRows(
               IF Cell(row, 0) = <<>> \/ Cell(row, 1) = <<>> THEN acc
               ELSE IF includes(key, <<"e", "v", "e", "n", "t">>) /\ includes(key, <<"n", "a", "m", "e">>)
                    THEN [acc EXCEPT !.eventName = Cell(row, 1)]
               ELSE IF includes(key, <<"d", "a", "t", "e">>)
                    THEN [acc EXCEPT !.eventDate = Cell(row, 1)]
               ELSE IF includes(key, <<"b", "u", "d", "g", "e", "t">>) /\ includes(key, <<"t", "o", "t", "a", "l">>)
                    THEN [acc EXCEPT !.budgetTotal = parseNumber(Cell(row, 1))]
               ELSE acc,
               Tail(rows))

\* A variant of firstAmount: every amount above 0 of the row counts.
RECURSIVE everyAmount(_, _)
everyAmount(row, i) ==
    IF i >= Len(row) THEN 0
    ELSE (IF parseNumber(Cell(row, i)) > 0 THEN parseNumber(Cell(row, i)) ELSE 0)
         + everyAmount(row, i + 1)

\* The first amount above 0 in the cells i, i+1, ... of a row, 0 if none.
RECURSIVE firstAmount(_, _)
firstAmount(row, i) ==
    IF i >= Len(row) THEN 0
    ELSE IF parseNumber(Cell(row, i)) > 0 THEN parseNumber(Cell(row, i))
    ELSE firstAmount(row, i + 1)

\* The loop over the data rows of a budget tab.
RECURSIVE budgetRows(_, _)
budgetRows(budgetSpent, rows) ==
    IF rows = <<>> THEN budgetSpent
    ELSE budgetRows(IF Cell(Head(rows), 0) = <<>> THEN budgetSpent
                    ELSE budgetSpent + firstAmount(Head(rows), 1),
                    Tail(rows))

taskRows(rows) ==
    LET named == SelectSeq(rows, LAMBDA row : Cell(row, 0) # <<>>)
    IN  [i \in 1..Len(named) |->
            [name |-> Cell(named[i], 0),
             dueDate |-> Cell(named[i], 1),
             assignedTo |-> Cell(named[i], 2),
             priority |-> parsePriority(Cell(named[i], 3))]]

vendorRows(rows) ==
    LET named == SelectSeq(rows, LAMBDA row : Cell(row, 0) # <<>>)
    IN  [i \in 1..Len(named) |->
            [name |-> Cell(named[i], 0),
             category |-> Cell(named[i], 1),
             contact |-> Cell(named[i], 2),
             email |-> Cell(named[i], 3),
             phone |-> Cell(named[i], 4),
             status |-> IF Cell(named[i], 5) = <<>> THEN <<"p", "e", "n", "d", "i", "n", "g">>
                        ELSE Cell(named[i], 5)]]

\* The body of the loop over the tabs of the structure.
extractTab(acc, tabName, headerRow, tabData) ==
    IF Len(tabData) = 0 THEN acc
    ELSE
    LET dataRows == JsSlice(tabData, headerRow)
        lowerTabName == toLowerCase(tabName)
        isOverview == \/ includes(lowerTabName, <<"o", "v", "e", "r", "v", "i", "e", "w">>)
                      \/ includes(lowerTabName, <<"i", "n", "f", "o">>)
        isBudget == \/ includes(lowerTabName, <<"b", "u", "d", "g", "e", "t">>)
                    \/ includes(lowerTabName, <<"e", "x", "p", "e", "n", "s", "e">>)
        isTasks == \/ includes(lowerTabName, <<"t", "a", "s", "k">>)
                   \/ includes(lowerTabName, <<"t", "o", "d", "o">>)
                   \/ includes(lowerTabName, <<"t", "i", "m", "e", "l", "i", "n", "e">>)
        isVendors == \/ includes(lowerTabName, <<"v", "e", "n", "d", "o", "r">>)
                     \/ includes(lowerTabName, <<"s", "u", "p", "p", "l", "i", "e", "r">>)
                     \/ includes(lowerTabName, <<"c", "o", "n", "t", "a", "c", "t">>)
        a1 == IF isOverview THEN overviewRows(acc, tabData) ELSE acc
    IN  [eventName |-> a1.eventName,
         eventDate |-> a1.eventDate,
         budgetTotal |-> a1.budgetTotal,
         budgetSpent |-> IF isBudget THEN budgetRows(acc.budgetSpent, dataRows)
                         ELSE acc.budgetSpent,
         tasks |-> IF isTasks THEN acc.tasks \o taskRows(dataRows) ELSE acc.tasks,
         vendors |-> IF isVendors THEN acc.vendors \o vendorRows(dataRows)
                     ELSE acc.vendors]

\* The loop over the tabs: sheetData[i] holds the rows read for the tab i.
RECURSIVE extractTabs(_, _, _, _)
extractTabs(acc, tabs, sheetData, i) ==
    IF i > Len(tabs) THEN acc
    ELSE extractTabs(extractTab(acc, tabs[i].name, tabs[i].headerRow, sheetData[i]),
                     tabs, sheetData, i + 1)

\* A variant of budgetRemaining: what remains is never less than nothing.
budgetRemainingNotBelowZero(budgetTotal, budgetSpent) ==
    IF budgetTotal < budgetSpent THEN 0 ELSE budgetTotal - budgetSpent

budgetRemaining(budgetTotal, budgetSpent) == budgetTotal - budgetSpent

\* The event data returned, from the values extracted.
eventDataOf(acc) ==
    LET complete == <<"c", "o", "m", "p", "l", "e", "t", "e">>
        done == SelectSeq(acc.tasks, LAMBDA task :
                    \/ includes(toLowerCase(task.name), complete)
                    \/ includes(toLowerCase(task.assignedTo), complete))
        open == SelectSeq(acc.tasks, LAMBDA task :
                    ~includes(toLowerCase(task.name), complete))
    IN  [eventName |-> acc.eventName,
         eventDate |-> acc.eventDate,
         budget |-> [total |-> acc.budgetTotal,
                     spent |-> acc.budgetSpent,
                     remaining |-> budgetRemaining(acc.budgetTotal, acc.budgetSpent)],
         tasks |-> [completed |-> Len(done),
                    total |-> Len(acc.tasks),
                    upcoming |-> SubSeq(open, 1, IF Len(open) < 5 THEN Len(open) ELSE 5)],
         vendors |-> acc.vendors,
         timeline |-> <<>>]

parseFlexibleEventData(sheetData, structure) ==
    eventDataOf(extractTabs([eventName |-> IF structure.sheetTitle = <<>>
                                           THEN <<"U", "n", "t", "i", "t", "l", "e", "d", " ", "E", "v", "e", "n", "t">>
                                           ELSE structure.sheetTitle,
                             eventDate |-> <<>>,
                             budgetTotal |-> 0,
                             budgetSpent |-> 0,
                             tasks |-> <<>>,
                             vendors |-> <<>>],
                            structure.tabs, sheetData, 1))

(***************************************************************************)
(* SpecParser: parseReadmeStructure and the validation of its result, on   *)
(* README values made of the header row and up to MaxReadmeRows rows       *)
(* drawn from ReadmeRows: rows of kept tabs, rows of tabs to ignore in     *)
(* two letter cases, a row whose column is to ignore, a short row.         *)
(***************************************************************************)
MaxReadmeRows == 3

S_IGNORED == <<"I","G","N","O","R","E","D">>

ReadmeRows ==
    { <<S_Budget, S_1, S_Category, S_Desc>>,
      <<S_Budget, S_1, S_Amount, S_Desc>>,
      <<S_IgnoreMe, S_1, S_X, S_Desc>>,
      <<S_IGNORED, S_2, S_Name, S_Desc>>,
      <<S_Budget, S_1, S_IgnoreMe, S_Desc>>,
      <<S_Tasks, S_2, S_Name, S_Desc>>,
      <<S_Tasks, S_2>> }

ReadmeTables ==
    UNION { [1..n -> ReadmeRows] : n \in 0..MaxReadmeRows }

InitParser ==
    /\ token = "t1"
    /\ call = IdleCall
    /\ remote = InitialRemote
    /\ store = EmptyStore
    /\ responseCache = EmptyCache
    /\ now = 1
    /\ ticks = 0
    /\ req = NoRequest
    /\ last = NoMessage
    /\ storeOps = NoStoreOps
    /\ \E rows \in ReadmeTables : readmeValues = <<ReadmeHeader>> \o rows
    /\ readmeResult = NotParsed
    /\ tabValues = NoTabValues
    /\ sheetCall = NoSheetCall
    /\ authToken = NoStoredToken
    /\ authCall = NoAuthCall
    /\ logs = <<>>
    /\ currentLevel = INFO
    /\ ExtraIdle

\* validateSheetStructure once the README values have been fetched.
ParseReadme ==
    /\ ~readmeResult.done
    /\ \E v \in {validateReadmeValues(readmeValues, S_Wedding, <<>>)} :
         readmeResult' = [done |-> TRUE,
                    structure |-> parseReadmeStructure(readmeValues),
                    isValid |-> v.isValid,
                    error |-> v.error]
    /\ UNCHANGED <<token, call, remote, store, responseCache, now, ticks, req, last,
                   storeOps, readmeValues, sheetVars,
                   authVars, loggerVars, extraVars>>

NextParser == ParseReadme

SpecParser == InitParser /\ [][NextParser]_vars

\* C15: a row whose tab name contains 'ignore' in any letter case adds no tab
\* and no column: the structure parsed is the one parsed from the values
\* without these rows; no tab of the structure has such a name and no column
\* of a tab has a name that contains 'ignore'; and the rows Budget/Category,
\* Budget/Amount, Ignore Me/X give the one tab Budget with its two columns.
C15_IgnoredRowsLeftOut ==
    readmeResult.done =>
        LET ign == <<"i","g","n","o","r","e">>
            Ignored(row) == includes(toLowerCase(row[1]), ign)
            kept == SelectSeq(readmeValues, LAMBDA row : ~Ignored(row))
            tabs == readmeResult.structure.tabs
        IN  /\ readmeResult.structure # NoStructure
            /\ readmeResult.structure = parseReadmeStructure(kept)
            /\ \A i \in 1..Len(tabs) :
                   /\ ~includes(toLowerCase(tabs[i].name), ign)
                   /\ \A k \in 1..Len(tabs[i].columns) :
                          ~includes(toLowerCase(tabs[i].columns[k].name), ign)
            /\ readmeValues = << ReadmeHeader,
                                 <<S_Budget, S_1, S_Category, S_Desc>>,
                                 <<S_Budget, S_1, S_Amount, S_Desc>>,
                                 <<S_IgnoreMe, S_1, S_X, S_Desc>> >>
                   => tabs = << [name |-> S_Budget, headerRow |-> 1,
                                 columns |-> << [name |-> S_Category,
                                                 description |-> S_Desc],
                                                [name |-> S_Amount,
                                                 description |-> S_Desc] >>] >>

\* The example of the three rows, parsed: one tab, two columns.
C15_Witness ==
    /\ readmeResult.done
    /\ readmeValues = << ReadmeHeader,
                         <<S_Budget, S_1, S_Category, S_Desc>>,
                         <<S_Budget, S_1, S_Amount, S_Desc>>,
                         <<S_IgnoreMe, S_1, S_X, S_Desc>> >>
    /\ Len(readmeResult.structure.tabs) = 1
    /\ Len(readmeResult.structure.tabs[1].columns) = 2

\* C16: README values are valid only if the structure parsed from them has a
\* tab with at least one column.
C16_ValidNeedsAColumn ==
    (readmeResult.done /\ readmeResult.isValid) =>
        \E i \in 1..Len(readmeResult.structure.tabs) :
            Len(readmeResult.structure.tabs[i].columns) >= 1

(***************************************************************************)
(* SpecEventSheet: readEventSheet and updateEventData, one call at a time. *)
(* The structure of a sheet gets into the store by                         *)
(* StoreValidatedStructure.  readEventSheet validates the sheet, takes the *)
(* stored structure, reads the tabs one after the other, each readRange    *)
(* returning the rows of the tab or throwing, and parses what it read.     *)
(* updateEventData issues one updateRange per section of the update.       *)
(* hadStructure notes whether getSheetStructure had a structure to give    *)
(* for the sheet when the call was made.                                   *)
(***************************************************************************)
TabNames == {S_Overview, S_Budget, S_Tasks, S_Timeline}

S_BudgetRemaining == <<"B", "u", "d", "g", "e", "t", " ", "R", "e", "m", "a", "i", "n", "i", "n", "g">>
S_999 == <<"9", "9", "9">>

OverviewTables ==
    { <<>>,
      << <<S_Field, <<"V", "a", "l", "u", "e">>>>,
         <<<<"B", "u", "d", "g", "e", "t", " ", "T", "o", "t", "a", "l">>, <<"1", "0", "0">>>>,
         <<S_BudgetRemaining, S_999>> >>,
      << <<<<"E", "v", "e", "n", "t", " ", "N", "a", "m", "e">>, <<"G", "a", "l", "a">>>>,
         <<<<"T", "o", "t", "a", "l", " ", "B", "u", "d", "g", "e", "t">>, <<"$", "1", ",", "5", "0", "0", ".", "5", "0">>>>,
         <<<<"D", "a", "t", "e">>, <<"M", "a", "y">>>> >>,
      << <<<<"B", "u", "d", "g", "e", "t", " ", "T", "o", "t", "a", "l">>, <<"-", "2", "0">>>> >> }

BudgetTables ==
    { << <<S_Category, S_Amount>>, <<<<"V", "e", "n", "u", "e">>, <<"3", "0">>>> >>,
      << <<S_Category, S_Amount>>,
         <<<<"V", "e", "n", "u", "e">>, <<"$", "1", "5", "0">>>>,
         <<<<"F", "o", "o", "d">>, <<>>, <<"7", "0", ".", "2", "5">>>> >>,
      << <<S_Category, S_Amount>>, <<<<"V", "e", "n", "u", "e">>, <<"-", "5">>>>, << <<>>, <<"4", "0">>>> >>,
      << <<S_Category, S_Amount>>,
         <<<<"V", "e", "n", "u", "e">>, <<"2", "0", "0", "0">>, <<"1", "8", "0", "0">>>> >> }

\* An overview with a total of 25000 and a budget with the rows Catering
\* 11500 and Venue 8000.
ScenarioOverview == << <<<<"T", "o", "t", "a", "l", " ", "B", "u", "d", "g", "e", "t">>, <<"2", "5", "0", "0", "0">>>> >>
ScenarioBudget ==
    << <<S_Category, S_Amount>>,
       <<<<"C", "a", "t", "e", "r", "i", "n", "g">>, <<"1", "1", "5", "0", "0">>>>,
       <<<<"V", "e", "n", "u", "e">>, <<"8", "0", "0", "0">>>> >>

\* The overview and the budget of the remote sheets, drawn together.
OverviewAndBudget ==
    (OverviewTables \X BudgetTables) \cup {<<ScenarioOverview, ScenarioBudget>>}

TasksTables ==
    { << <<S_Party>>,
         <<S_Name, <<"D", "u", "e">>, <<"W", "h", "o">>, <<"P", "r", "i", "o", "r", "i", "t", "y">>>>,
         <<<<"B", "o", "o", "k", " ", "h", "a", "l", "l">>, <<"M", "a", "y">>, <<"A", "n", "n">>, <<"H", "i", "g", "h">>>>,
         <<<<"I", "n", "v", "i", "t", "e", "s", " ", "c", "o", "m", "p", "l", "e", "t", "e">>, <<>>, <<"B", "o", "b">>>>,
         <<<<"O", "r", "d", "e", "r", " ", "c", "a", "k", "e">>, <<"J", "u", "n">>, <<"C", "o", "m", "p", "l", "e", "t", "e", "d", " ", "b", "y", " ", "A", "n", "n">>>> >> }

\* The rows of a Timeline tab: a header row, two rows with a first cell and,
\* between them, one without.
TimelineTable ==
    << <<<<"T", "a", "s", "k">>, <<"D", "u", "e", " ", "D", "a", "t", "e">>, <<"A", "s", "s", "i", "g", "n", "e", "d", " ", "T", "o">>, <<"S", "t", "a", "t", "u", "s">>>>,
       <<<<"S", "e", "n", "d", " ", "i", "n", "v", "i", "t", "a", "t", "i", "o", "n", "s">>, <<"2", "0", "2", "4", "-", "0", "4", "-", "0", "1">>, <<"S", "a", "r", "a", "h">>, <<"C", "o", "m", "p", "l", "e", "t", "e", "d">>>>,
       <<<<>>, <<"2", "0", "2", "4", "-", "0", "5", "-", "0", "1">>>>,
       <<<<"F", "i", "n", "a", "l", " ", "d", "r", "e", "s", "s", " ", "f", "i", "t", "t", "i", "n", "g">>, <<"2", "0", "2", "4", "-", "0", "5", "-", "1", "5">>, <<"S", "a", "r", "a", "h">>, <<"P", "e", "n", "d", "i", "n", "g">>>> >>

ReadRemote == [id \in StoreIds |-> IF id = "s1" THEN "event" ELSE "tasks"]

ReadAnswers == {"ok", "throw"}

InitEventSheet ==
    /\ token = "t1"
    /\ call = IdleCall
    /\ remote = ReadRemote
    /\ store = EmptyStore
    /\ responseCache = EmptyCache
    /\ now = 1
    /\ ticks = 0
    /\ req = NoRequest
    /\ last = NoMessage
    /\ storeOps = NoStoreOps
    /\ readmeValues = <<>>
    /\ readmeResult = NotParsed
    /\ \E ob \in OverviewAndBudget : \E k \in TasksTables :
         tabValues = [name \in TabNames |->
                         IF name = S_Overview THEN ob[1]
                         ELSE IF name = S_Budget THEN ob[2]
                         ELSE IF name = S_Tasks THEN k ELSE TimelineTable]
    /\ sheetCall = NoSheetCall
    /\ authToken = NoStoredToken
    /\ authCall = NoAuthCall
    /\ logs = <<>>
    /\ currentLevel = INFO
    /\ ExtraIdle

\* readEventSheet up to the loop over the tabs.
readEventSheetStart(sheetId, head, had) ==
    IF head.throws
    THEN [NoSheetCall EXCEPT !.op = "readEventSheet", !.pc = "done",
                             !.sheet = sheetId, !.hadStructure = had,
                             !.log = head.log, !.throws = TRUE,
                             !.error = "Failed to read event data: " \o head.error]
    ELSE [NoSheetCall EXCEPT !.op = "readEventSheet", !.pc = "tabs",
                             !.sheet = sheetId, !.hadStructure = had,
                             !.log = head.log, !.structure = head.structure]

\* A variant of readTab: the error of readRange is not caught in the loop.
readTabThrowing(r, out, values) ==
    IF out = "ok"
    THEN [r EXCEPT !.outs = Append(@, out), !.sheetData = Append(@, values)]
    ELSE [r EXCEPT !.pc = "done", !.outs = Append(@, out), !.throws = TRUE,
                   !.error = "Failed to read event data: " \o SheetsApiError("500")]

\* The body of the loop over the tabs: the rows readRange returns, no row
\* when it throws.
readTab(r, out, values) ==
    [r EXCEPT !.outs = Append(@, out),
              !.sheetData = Append(@, IF out = "ok" THEN values ELSE <<>>)]

StartReadEventSheet ==
    /\ sheetCall.pc \in {"idle", "done"}
    /\ \E sheetId \in Sheets : \E o \in ValidateAnswers(token) :
       \E head \in {readEventSheetHead(token, sheetId, remote, store, now, o[1], o[2])} :
         sheetCall' = readEventSheetStart(sheetId, head, HasFresh(sheetId))
    /\ UNCHANGED <<token, call, remote, store, responseCache, now, ticks, req, last,
                   storeOps, parserVars, tabValues,
                   authVars, loggerVars, extraVars>>

\* A variant of canIssue: the request for a tab does not wait for the
\* answer to the one before.
canIssueAtOnce(r) == r.issued < Len(r.structure.tabs)

\* The loop over the tabs awaits readRange in its body: the request for a
\* tab is issued when every request before it has been answered.
canIssue(r) == r.issued < Len(r.structure.tabs) /\ r.issued = Len(r.outs)

\* readRange is called for the next tab of the structure.
IssueReadRange ==
    /\ sheetCall.pc = "tabs"
    /\ canIssue(sheetCall)
    /\ sheetCall' = [sheetCall EXCEPT !.issued = @ + 1]
    /\ UNCHANGED <<token, call, remote, store, responseCache, now, ticks, req, last,
                   storeOps, parserVars, tabValues,
                   authVars, loggerVars, extraVars>>

\* The readRange of the oldest request not yet answered returns or throws.
ReadTab ==
    /\ sheetCall.pc = "tabs"
    /\ Len(sheetCall.outs) < sheetCall.issued
    /\ \E out \in ReadAnswers :
         sheetCall' = readTab(sheetCall, out,
                            tabValues[sheetCall.structure.tabs[Len(sheetCall.outs) + 1].name])
    /\ UNCHANGED <<token, call, remote, store, responseCache, now, ticks, req, last,
                   storeOps, parserVars, tabValues,
                   authVars, loggerVars, extraVars>>

FinishReadEventSheet ==
    /\ sheetCall.pc = "tabs"
    /\ Len(sheetCall.outs) = Len(sheetCall.structure.tabs)
    /\ sheetCall' = [sheetCall EXCEPT
                      !.pc = "done",
                      !.eventData = parseFlexibleEventData(sheetCall.sheetData,
                                                           sheetCall.structure)]
    /\ UNCHANGED <<token, call, remote, store, responseCache, now, ticks, req, last,
                   storeOps, parserVars, tabValues,
                   authVars, loggerVars, extraVars>>

\* updateEventData, called with the sections of an update.
CallUpdateEventData ==
    /\ sheetCall.pc \in {"idle", "done"}
    /\ \E sheetId \in Sheets : \E sections \in UpdatePayloads :
       \E outs \in [sections -> WriteAnswers(token)] :
       \E first \in FirstToReject(token, sections, outs) :
       \E u \in {updateEventData(token, sections, outs, first)} :
         sheetCall' = [NoSheetCall EXCEPT
                          !.op = "updateEventData", !.pc = "done",
                          !.sheet = sheetId, !.hadStructure = HasFresh(sheetId),
                          !.log = u.log, !.throws = u.throws,
                          !.error = IF u.throws
                                    THEN "Failed to update event data: " \o u.error
                                    ELSE Null]
    /\ UNCHANGED <<token, call, remote, store, responseCache, now, ticks, req, last,
                   storeOps, parserVars, tabValues,
                   authVars, loggerVars, extraVars>>

(***************************************************************************)
(* appendToEventLog: the row it appends and the range it appends to.       *)
(***************************************************************************)
\* The w decimal digits of n.
Digits(n, w) == [i \in 1..w |-> DigitChars[((n \div (10 ^ (w - i))) % 10) + 1]]

MsPerDay == 86400000

\* Date.prototype.toISOString of the time t in ms since the epoch, for a
\* time within January 1970.
toISOString(t) ==
    LET ms == t % MsPerDay
    IN  <<"1", "9", "7", "0", "-", "0", "1", "-">> \o Digits(1 + (t \div MsPerDay), 2) \o <<"T">>
        \o Digits(ms \div 3600000, 2) \o <<":">>
        \o Digits((ms \div 60000) % 60, 2) \o <<":">>
        \o Digits((ms \div 1000) % 60, 2) \o <<".">>
        \o Digits(ms % 1000, 3) \o <<"Z">>

S_Extension == <<"E", "x", "t", "e", "n", "s", "i", "o", "n">>
EventLogRange == "Event Log!A:C"

\* A variant of logEntry: the row has no cell for the source of the entry.
logEntryWithoutSource(t, entry) == << <<toISOString(t), entry>> >>

\* const logEntry = [[timestamp, entry, 'Extension']]
logEntry(t, entry) == << <<toISOString(t), entry, S_Extension>> >>

\* The entries the model appends.
LogEntries == { <<"C", "o", "n", "f", "i", "r", "m", "e", "d", " ", "h", "e", "a", "d", "c", "o", "u", "n", "t">>, <<"x">> }

\* appendToEventLog, called with an entry.
CallAppendToEventLog ==
    /\ sheetCall.pc \in {"idle", "done"}
    /\ \E sheetId \in Sheets : \E entry \in LogEntries :
       \E o \in WriteAnswers(token) :
       \E a \in {appendToEventLog(token, o)} :
         sheetCall' = [NoSheetCall EXCEPT
                          !.op = "appendToEventLog", !.pc = "done",
                          !.sheet = sheetId, !.hadStructure = HasFresh(sheetId),
                          !.log = a.log, !.throws = a.throws,
                          !.error = IF a.throws
                                    THEN "Failed to add log entry: " \o a.error
                                    ELSE Null,
                          !.range = IF a.log = <<>> THEN "" ELSE EventLogRange,
                          !.values = IF a.log = <<>> THEN <<>>
                                     ELSE logEntry(now, entry)]
    /\ UNCHANGED <<token, call, remote, store, responseCache, now, ticks, req, last,
                   storeOps, parserVars, tabValues,
                   authVars, loggerVars, extraVars>>

NextEventSheet ==
    \/ StoreValidatedStructure
    \/ CallUpdateEventData
    \/ CallAppendToEventLog
    \/ StartReadEventSheet
    \/ IssueReadRange
    \/ ReadTab
    \/ FinishReadEventSheet

SpecEventSheet == InitEventSheet /\ [][NextEventSheet]_vars

\* C17: in the event data readEventSheet returns, budget.remaining is
\* budget.total minus budget.spent, below zero when more was spent than the
\* total, whatever a row of the sheet says remains.
C17_RemainingIsTotalMinusSpent ==
    (sheetCall.op = "readEventSheet" /\ sheetCall.pc = "done" /\ ~sheetCall.throws) =>
        sheetCall.eventData.budget.remaining =
            sheetCall.eventData.budget.total - sheetCall.eventData.budget.spent

\* Event data returned with more spent than the total, read from a sheet
\* whose overview has a row for what remains.
C17_Witness ==
    /\ sheetCall.op = "readEventSheet"
    /\ sheetCall.pc = "done"
    /\ ~sheetCall.throws
    /\ sheetCall.eventData.budget.total > 0
    /\ sheetCall.eventData.budget.spent > sheetCall.eventData.budget.total
    /\ sheetCall.eventData.budget.remaining < 0
    /\ \E i \in 1..Len(tabValues[S_Overview]) :
           tabValues[S_Overview][i] = <<S_BudgetRemaining, S_999>>

\* C18: once readEventSheet has started to read the tabs, a readRange that
\* throws does not end the call: every tab of the structure is read, and the
\* call returns the event data parsed from the rows of the tabs that were
\* read, a tab whose readRange threw counting as a tab without rows.
C18_TabFailureNotFatal ==
    (sheetCall.op = "readEventSheet" /\ sheetCall.pc = "done" /\ sheetCall.outs # <<>>) =>
        LET tabs == sheetCall.structure.tabs
        IN  /\ ~sheetCall.throws
            /\ Len(sheetCall.outs) = Len(tabs)
            /\ sheetCall.eventData =
                   parseFlexibleEventData(
                       [i \in 1..Len(tabs) |->
                           IF sheetCall.outs[i] = "ok" THEN tabValues[tabs[i].name]
                           ELSE <<>>],
                       sheetCall.structure)

\* Event data returned although the readRange of the first tab threw, with
\* the amounts of a later tab in it.
C18_Witness ==
    /\ sheetCall.op = "readEventSheet"
    /\ sheetCall.pc = "done"
    /\ ~sheetCall.throws
    /\ Len(sheetCall.outs) = 4
    /\ sheetCall.outs[1] = "throw"
    /\ sheetCall.outs[2] = "ok"
    /\ sheetCall.eventData.budget.total = 0
    /\ sheetCall.eventData.budget.spent > 0

\* C19: updateEventData throws only if every updateRange it issued failed:
\* a call one of whose updateRange fetches was answered ok returns.
C19_FailsOnlyIfAllFail ==
    ( /\ sheetCall.op = "updateEventData"
      /\ sheetCall.pc = "done"
      /\ \E i \in 1..Len(sheetCall.log) : sheetCall.log[i].out = "ok" )
    => ~sheetCall.throws

\* C20: updateEventData issues an updateRange fetch only for a sheet whose
\* structure getSheetStructure has to give, or after a validation of the
\* sheet, which starts with the metadata fetch, earlier in the same call.
C20_NoWriteWithoutStructure ==
    sheetCall.op = "updateEventData" =>
        \A i \in 1..Len(sheetCall.log) :
            sheetCall.log[i].kind = "put" =>
                \/ sheetCall.hadStructure
                \/ \E j \in 1..(i - 1) : sheetCall.log[j].kind = "meta"

\* C21: an appendToEventLog call made signed in issues one fetch and no
\* other, the append to the range 'Event Log!A:C' of the one row made of the
\* time of the call in ISO form, the entry and 'Extension'; it issues no
\* metadata fetch and no README fetch, and it does so whether or not a
\* structure is stored for the sheet.
C21_OneAppendOfOneRow ==
    (sheetCall.op = "appendToEventLog" /\ sheetCall.pc = "done") =>
        /\ Len(sheetCall.log) = 1
        /\ sheetCall.log[1].kind = "append"
        /\ sheetCall.range = "Event Log!A:C"
        /\ Len(sheetCall.values) = 1
        /\ Len(sheetCall.values[1]) = 3
        /\ sheetCall.values[1][1] = <<"1", "9", "7", "0", "-", "0", "1", "-", "0", "1", "T", "0", "0", ":", "0", "0", ":", "0", "0", ".", "0", "0", "1", "Z">>
        /\ sheetCall.values[1][2] \in LogEntries
        /\ sheetCall.values[1][3] = <<"E", "x", "t", "e", "n", "s", "i", "o", "n">>
        /\ sheetCall.log[1].out = "ok" => ~sheetCall.throws

\* An entry appended to a sheet for which no structure is stored.
C21_Witness ==
    /\ sheetCall.op = "appendToEventLog"
    /\ sheetCall.pc = "done"
    /\ ~sheetCall.hadStructure
    /\ ~sheetCall.throws
    /\ sheetCall.values[1][2] = <<"C", "o", "n", "f", "i", "r", "m", "e", "d", " ", "h", "e", "a", "d", "c", "o", "u", "n", "t">>

(***************************************************************************)
(* SpecReadMessages: READ_EVENT_DATA messages to a handler whose           *)
(* chrome.storage.local, which outlives the handler, holds the structure   *)
(* of the sheet s1.  handleMessage itself never stores one.  Between the   *)
(* messages the clock advances and the rows of the Budget tab are edited.  *)
(***************************************************************************)
StoredEventStructure == validateSheetStructure("t1", "event", "ok", "ok").structure

InitReadMessages ==
    /\ token = "t1"
    /\ call = IdleCall
    /\ remote = ReadRemote
    /\ store = storeSheetStructure(EmptyStore, "s1", StoredEventStructure, 0)
    /\ responseCache = EmptyCache
    /\ now = 1
    /\ ticks = 0
    /\ req = NoRequest
    /\ last = NoMessage
    /\ storeOps = NoStoreOps
    /\ readmeValues = <<>>
    /\ readmeResult = NotParsed
    /\ \E b \in BudgetTables :
         tabValues = [name \in TabNames |->
                         IF name = S_Budget THEN b
                         ELSE IF name = S_Overview
                         THEN << <<<<"B", "u", "d", "g", "e", "t", " ", "T", "o", "t", "a", "l">>, <<"1", "0", "0">>>> >>
                         ELSE IF name = S_Timeline THEN TimelineTable
                         ELSE <<>>]
    /\ sheetCall = NoSheetCall
    /\ authToken = NoStoredToken
    /\ authCall = NoAuthCall
    /\ logs = <<>>
    /\ currentLevel = INFO
    /\ ExtraIdle

\* The rest of handleMessage for a READ_EVENT_DATA whose readEventSheet went
\* on to the tabs: every tab is read, readRange returning its rows or
\* throwing, the event data is parsed, and the response { data } is cached.
\* The log gets one entry for every readRange call.
FinishReadEventData ==
    /\ req.pc = "reading"
    /\ \E outs \in [1..Len(req.structure.tabs) -> ReadAnswers] :
       \E response \in
           {DataOnly(parseFlexibleEventData(
                [i \in 1..Len(req.structure.tabs) |->
                    IF outs[i] = "ok" THEN tabValues[req.structure.tabs[i].name]
                    ELSE <<>>],
                req.structure))} :
         /\ responseCache' = setCache(responseCache,
                                      getCacheKey("READ_EVENT_DATA", req.sheet),
                                      response, now)
         /\ last' = [last EXCEPT
                        !.type = "READ_EVENT_DATA", !.sheet = req.sheet, !.at = now,
                        !.hadToken = TRUE, !.fromCache = FALSE, !.pending = FALSE,
                        !.log = @ \o [i \in 1..Len(req.structure.tabs) |-> "range"],
                        !.response = response]
    /\ req' = NoRequest
    /\ UNCHANGED <<token, call, remote, store, now, ticks, unitVars>>

\* Someone edits the rows of the Budget tab of the remote sheets.
EditBudgetTab ==
    /\ \E b \in BudgetTables \ {tabValues[S_Budget]} :
         tabValues' = [tabValues EXCEPT ![S_Budget] = b]
    /\ last' = NoMessage
    /\ UNCHANGED <<token, call, remote, store, responseCache, now, ticks, req,
                   storeOps, parserVars, sheetCall,
                   authVars, loggerVars, extraVars>>

NextReadMessages ==
    \/ ReceiveReadEventData
    \/ FinishReadEventData
    \/ EditBudgetTab
    \/ Tick

SpecReadMessages == InitReadMessages /\ [][NextReadMessages]_vars

C23_GuidanceReachesCaller ==
    ( /\ last.type = "READ_EVENT_DATA"
      /\ ~last.fromCache
      /\ last.validation.ran
      /\ ~last.validation.isValid
      /\ last.validation.error \in {MsgReadmeNotFound, MsgReadmeReadFailed,
                                     MsgReadmeEmpty, MsgCouldNotParse} )
    => last.response.error = last.validation.error

C25_TimelineItemPerRow ==
    ( /\ sheetCall.op = "readEventSheet"
      /\ sheetCall.pc = "done"
      /\ ~sheetCall.throws
      /\ \E i \in 1..Len(sheetCall.structure.tabs) :
            /\ sheetCall.structure.tabs[i].name = S_Timeline
            /\ sheetCall.outs[i] = "ok" )
    => LET rows == SelectSeq(JsSlice(tabValues[S_Timeline], 1),
                             LAMBDA row : Cell(row, 0) # <<>>)
       IN  /\ Len(sheetCall.eventData.timeline) = Len(rows)
           /\ \A k \in 1..Len(rows) :
                 sheetCall.eventData.timeline[k].task = Cell(rows[k], 0)

(***************************************************************************)
(* SpecAuth: GoogleAuthService (background/google-auth.ts) over the item   *)
(* authToken of chrome.storage.local (shared/storage.ts).  A call is one   *)
(* step.  The item the storage holds at the start is drawn from            *)
(* StoredTokens: chrome.storage.local outlives the service worker, and the  *)
(* type GoogleAuthToken has an optional refresh_token.  authenticateUser   *)
(* itself stores a token without one: the redirect of the OAuth flow       *)
(* carries none.  An operation of chrome.storage.local answers or rejects. *)
(***************************************************************************)
TOKEN_REFRESH_BUFFER == 5 * 60 * 1000

MaxAuthTicks == 4

\* The clock advances by the buffer or by fifty minutes.
AuthSteps == {TOKEN_REFRESH_BUFFER, 50 * 60 * 1000}

StorageAnswers == {"ok", "reject"}
RevokeOutcomes == {"ok", "400", "neterr"}
RefreshOutcomes == {"ok", "okNewRefresh", "400", "neterr"}
AuthFlowOutcomes == {"ok", "cancelled", "access_denied", "noToken"}

\* enrichTokenWithExpiration: expires_in is 3600 where the token has none.
enrichTokenWithExpiration(access, refresh, expiresIn, t) ==
    [present |-> TRUE,
     access_token |-> access,
     refresh_token |-> refresh,
     expires_in |-> IF expiresIn = 0 THEN 3600 ELSE expiresIn,
     token_type |-> "Bearer",
     expires_at |-> t + (IF expiresIn = 0 THEN 3600 ELSE expiresIn) * 1000]

\* The items the storage can hold at the start: none, a token without a
\* refresh token, a token with one; each an hour from its expiry.
StoredTokens ==
    { NoStoredToken,
      enrichTokenWithExpiration("a1", Undefined, 3600, 0),
      enrichTokenWithExpiration("a1", "r1", 3600, 0) }

\* The request of a fetch of the service.
RevokeRequest(access) ==
    [url |-> "https://oauth2.googleapis.com/revoke?token=" \o access, method |-> "POST"]
RefreshRequest(refresh) ==
    [url |-> "https://oauth2.googleapis.com/token", method |-> "POST",
     refresh_token |-> refresh, grant_type |-> "refresh_token"]

\* refreshToken: the token of the response is stored, with the refresh token
\* of the call when the response has none; any failure is thrown as one
\* error.
refreshToken(refresh, t, out, setAnswer) ==
    LET fresh == enrichTokenWithExpiration("a2",
                     IF out = "okNewRefresh" THEN "r2" ELSE refresh, 3600, t)
    IN  IF out \in {"ok", "okNewRefresh"} /\ setAnswer = "ok"
        THEN [throws |-> FALSE, token |-> fresh, stored |-> TRUE,
              fetches |-> <<RefreshRequest(refresh)>>]
        ELSE [throws |-> TRUE, token |-> NoStoredToken, stored |-> FALSE,
              fetches |-> <<RefreshRequest(refresh)>>,
              error |-> "Failed to refresh authentication. Please sign in again."]

\* A variant of getValidToken: a token whose refresh failed is returned as
\* it is stored.
getValidTokenStale(stored, t, getAnswer, out, setAnswer) ==
    IF getAnswer # "ok" \/ ~stored.present
    THEN [result |-> Null, fetches |-> <<>>, stored |-> stored]
    ELSE IF t >= stored.expires_at - TOKEN_REFRESH_BUFFER
    THEN IF stored.refresh_token = Undefined
         THEN [result |-> Null, fetches |-> <<>>, stored |-> stored]
         ELSE \* refreshed
              LET r == refreshToken(stored.refresh_token, t, out, setAnswer)
              IN  [result |-> IF r.throws THEN stored.access_token
                              ELSE r.token.access_token,
                   fetches |-> r.fetches,
                   stored |-> IF r.stored THEN r.token ELSE stored]
    ELSE [result |-> stored.access_token, fetches |-> <<>>, stored |-> stored]

\* getValidToken: what it returns, the fetches it issued and what the
\* storage holds after it.
getValidToken(stored, t, getAnswer, out, setAnswer) ==
    IF getAnswer # "ok" \/ ~stored.present
    THEN [result |-> Null, fetches |-> <<>>, stored |-> stored]
    ELSE IF t >= stored.expires_at - TOKEN_REFRESH_BUFFER
    THEN IF stored.refresh_token = Undefined
         THEN [result |-> Null, fetches |-> <<>>, stored |-> stored]
         ELSE \* refreshed
              LET r == refreshToken(stored.refresh_token, t, out, setAnswer)
              IN  [result |-> IF r.throws THEN Null ELSE r.token.access_token,
                   fetches |-> r.fetches,
                   stored |-> IF r.stored THEN r.token ELSE stored]
    ELSE [result |-> stored.access_token, fetches |-> <<>>, stored |-> stored]

\* logout: the item is set to null, then read, and the token read, if any,
\* is revoked; a revoke that fails is only logged.
logout(stored, setAnswer, getAnswer) ==
    IF setAnswer # "ok"
    THEN [throws |-> TRUE, fetches |-> <<>>, stored |-> stored]
    ELSE IF getAnswer # "ok"
    THEN [throws |-> TRUE, fetches |-> <<>>, stored |-> NoStoredToken]
    ELSE LET cleared == NoStoredToken   \* setStorageItem('authToken', null)
             read == cleared            \* getStoredToken()
         IN  [throws |-> FALSE,
              fetches |-> IF read.present THEN <<RevokeRequest(read.access_token)>>
                          ELSE <<>>,
              stored |-> cleared]

InitAuth ==
    /\ token = NoToken
    /\ call = IdleCall
    /\ remote = InitialRemote
    /\ store = EmptyStore
    /\ responseCache = EmptyCache
    /\ now = 0
    /\ ticks = 0
    /\ req = NoRequest
    /\ last = NoMessage
    /\ storeOps = NoStoreOps
    /\ readmeValues = <<>>
    /\ readmeResult = NotParsed
    /\ tabValues = NoTabValues
    /\ sheetCall = NoSheetCall
    /\ authToken \in StoredTokens
    /\ authCall = NoAuthCall
    /\ logs = <<>>
    /\ currentLevel = INFO
    /\ ExtraIdle

AuthUnchanged ==
    UNCHANGED <<token, call, remote, store, responseCache, req, last, storeOps,
                parserVars, sheetVars, loggerVars, extraVars>>

\* authenticateUser: the token of the redirect is stored with its expiry; a
\* flow that gives no redirect, an error or no token throws.
CallAuthenticateUser ==
    /\ \E flow \in AuthFlowOutcomes : \E setAnswer \in StorageAnswers :
         IF flow = "ok" /\ setAnswer = "ok"
         THEN \E enrichedToken \in {enrichTokenWithExpiration("a1", Undefined, 3600, now)} :
                /\ authToken' = enrichedToken
                /\ authCall' = [op |-> "authenticateUser", before |-> authToken,
                                at |-> now, throws |-> FALSE, fetches |-> <<>>,
                                result |-> enrichedToken.access_token,
                                getAnswer |-> "ok", setAnswer |-> setAnswer,
                                out |-> "ok"]
         ELSE /\ authToken' = authToken
              /\ authCall' = [op |-> "authenticateUser", before |-> authToken,
                              at |-> now, throws |-> TRUE, fetches |-> <<>>,
                              result |-> Null,
                              getAnswer |-> "ok", setAnswer |-> setAnswer,
                              out |-> flow]
    /\ UNCHANGED <<now, ticks>>
    /\ AuthUnchanged

CallLogout ==
    /\ \E setAnswer \in StorageAnswers : \E getAnswer \in StorageAnswers :
       \E out \in RevokeOutcomes :
       \E r \in {logout(authToken, setAnswer, getAnswer)} :
         /\ authToken' = r.stored
         /\ authCall' = [op |-> "logout", before |-> authToken, at |-> now,
                         throws |-> r.throws, fetches |-> r.fetches,
                         result |-> Null,
                         getAnswer |-> getAnswer, setAnswer |-> setAnswer,
                         out |-> out]
    /\ UNCHANGED <<now, ticks>>
    /\ AuthUnchanged

CallGetValidToken ==
    /\ \E getAnswer \in StorageAnswers : \E out \in RefreshOutcomes :
       \E setAnswer \in StorageAnswers :
       \E r \in {getValidToken(authToken, now, getAnswer, out, setAnswer)} :
         /\ authToken' = r.stored
         /\ authCall' = [op |-> "getValidToken", before |-> authToken, at |-> now,
                         throws |-> FALSE, fetches |-> r.fetches,
                         result |-> r.result,
                         getAnswer |-> getAnswer, setAnswer |-> setAnswer,
                         out |-> out]
    /\ UNCHANGED <<now, ticks>>
    /\ AuthUnchanged

AuthTick ==
    /\ ticks < MaxAuthTicks
    /\ \E d \in AuthSteps : now' = now + d
    /\ ticks' = ticks + 1
    /\ UNCHANGED authVars
    /\ AuthUnchanged

NextAuth ==
    \/ CallAuthenticateUser
    \/ CallLogout
    \/ CallGetValidToken
    \/ AuthTick

SpecAuth == InitAuth /\ [][NextAuth]_vars

\* C26: a logout made while a token is stored, the storage answering, clears
\* the stored token and issues exactly one fetch, the revoke request with
\* the access_token of that token; a logout made while no token is stored
\* issues no fetch; and the logout returns whatever the revoke is answered.
C26_LogoutRevokesStoredToken ==
    ( /\ authCall.op = "logout"
      /\ authCall.setAnswer = "ok"
      /\ authCall.getAnswer = "ok" )
    => /\ ~authCall.throws
       /\ ~authToken.present
       /\ authCall.fetches = IF authCall.before.present
                             THEN <<RevokeRequest(authCall.before.access_token)>>
                             ELSE <<>>

\* C27: getValidToken, the storage answering, returns the stored access
\* token when the stored token is more than five minutes from its expiry;
\* the access token of the refresh response when the stored token is expired,
\* has a refresh token and the refresh succeeds; and null when no token is
\* stored, when the stored token is expired and has no refresh token, and
\* when the refresh fails.
C27_GetValidToken ==
    ( /\ authCall.op = "getValidToken"
      /\ authCall.getAnswer = "ok" )
    => LET stored == authCall.before
           expired == stored.present /\ authCall.at >= stored.expires_at
           refreshed == /\ authCall.out \in {"ok", "okNewRefresh"}
                        /\ authCall.setAnswer = "ok"
       IN  /\ ~stored.present => authCall.result = Null
           /\ (stored.present /\ authCall.at < stored.expires_at - TOKEN_REFRESH_BUFFER)
                 => /\ authCall.result = stored.access_token
                    /\ authCall.fetches = <<>>
           /\ (expired /\ stored.refresh_token # Undefined /\ refreshed)
                 => /\ authCall.result = "a2"
                    /\ authToken.access_token = "a2"
           /\ (expired /\ stored.refresh_token = Undefined)
                 => authCall.result = Null
           /\ (expired /\ stored.refresh_token # Undefined /\ ~refreshed)
                 => authCall.result = Null

\* A token refreshed after its expiry, and asked for again while the new
\* one is fresh.
C27_Witness ==
    /\ authCall.op = "getValidToken"
    /\ authCall.getAnswer = "ok"
    /\ authCall.before.present
    /\ authCall.before.access_token = "a2"
    /\ authCall.at < authCall.before.expires_at - TOKEN_REFRESH_BUFFER
    /\ authCall.result = "a2"

(***************************************************************************)
(* SpecLogger: the class Logger (shared/logger.ts).  A call of Logger.log  *)
(* is one step.  An entry is told from the others by its timestamp, read   *)
(* from the clock after the test of the level; the clock is a millisecond  *)
(* later at every entry.  The message and the arguments of an entry are    *)
(* left out, and so is the output to the console.                          *)
(***************************************************************************)
MAX_LOGS == 1000

MaxLogCalls == 1002

LogLevels == {DEBUG, INFO, WARN, ERROR}

\* A variant of pushLog: the entry that does not fit is the one dropped.
pushLogDropNewest(buffer, logEntry_) ==
    IF Len(buffer) + 1 > MAX_LOGS THEN buffer ELSE Append(buffer, logEntry_)

\* Logger.logs.push(logEntry), and shift() when the length is over MAX_LOGS.
pushLog(buffer, logEntry_) ==
    IF Len(buffer) + 1 > MAX_LOGS THEN Tail(Append(buffer, logEntry_))
    ELSE Append(buffer, logEntry_)

InitLogger ==
    /\ token = NoToken
    /\ call = IdleCall
    /\ remote = InitialRemote
    /\ store = EmptyStore
    /\ responseCache = EmptyCache
    /\ now = 0
    /\ ticks = 0
    /\ req = NoRequest
    /\ last = NoMessage
    /\ storeOps = NoStoreOps
    /\ readmeValues = <<>>
    /\ readmeResult = NotParsed
    /\ tabValues = NoTabValues
    /\ sheetCall = NoSheetCall
    /\ authToken = NoStoredToken
    /\ authCall = NoAuthCall
    /\ logs = <<>>
    /\ currentLevel = INFO
    /\ ExtraIdle

LoggerUnchanged ==
    UNCHANGED <<token, call, remote, store, responseCache, ticks, req, last,
                storeOps, parserVars, sheetVars, authVars, extraVars>>

\* Logger.setLevel.
SetLevel ==
    /\ \E level \in LogLevels : currentLevel' = level
    /\ UNCHANGED <<logs, now>>
    /\ LoggerUnchanged

\* Logger.log: a call below the current level returns at once.
LoggerLog ==
    /\ now < MaxLogCalls
    /\ \E level \in LogLevels :
         IF level < currentLevel
         THEN UNCHANGED <<logs, now>>
         ELSE /\ now' = now + 1
              /\ logs' = pushLog(logs, [timestamp |-> now'])
    /\ UNCHANGED currentLevel
    /\ LoggerUnchanged

NextLogger ==
    \/ SetLevel
    \/ LoggerLog

SpecLogger == InitLogger /\ [][NextLogger]_vars

\* C28: Logger.logs never holds more than MAX_LOGS entries, and it holds the
\* entries of the most recent calls that were logged, in the order of the
\* calls: when a call finds the buffer full, the oldest entry is dropped.
C28_AtMostMaxLogs ==
    /\ Len(logs) <= MAX_LOGS
    /\ Len(logs) = (IF now < MAX_LOGS THEN now ELSE MAX_LOGS)
    /\ \A i \in 1..Len(logs) : logs[i].timestamp = now - Len(logs) + i

\* A full buffer from which the two oldest entries were dropped.
C28_Witness ==
    /\ now = MAX_LOGS + 2
    /\ Len(logs) = MAX_LOGS
    /\ logs[1].timestamp = 3
    /\ logs[MAX_LOGS].timestamp = now

(***************************************************************************)
(* SpecHeaderRow: parseReadmeStructure on README values whose rows are     *)
(* drawn from header rows, rows that come near one, and rows with          *)
(* header-row cells of every kind; no row is fixed as the first.           *)
(***************************************************************************)
MaxHeaderRows == 3

S_Notes == <<"N", "o", "t", "e", "s">>

HeaderRowRows ==
    { ReadmeHeader,
      <<<<"T", "A", "B">>, <<" ", "h", "e", "a", "d", "e", "r", " ">>, S_Column, S_Notes>>,
      <<S_Tab, S_HeaderRow, S_Name, S_Notes>>,
      <<S_Tab, S_HeaderRow, S_Column>>,
      <<S_Tasks, <<"-", "2">>, S_Name, S_Desc>>,
      <<S_Budget, <<"0">>, S_Amount, S_Desc>>,
      <<S_Budget, <<"x">>, S_Category, S_Desc>> }

HeaderRowTables ==
    UNION { [1..n -> HeaderRowRows] : n \in 0..MaxHeaderRows }

InitHeaderRow ==
    /\ token = "t1"
    /\ call = IdleCall
    /\ remote = InitialRemote
    /\ store = EmptyStore
    /\ responseCache = EmptyCache
    /\ now = 1
    /\ ticks = 0
    /\ req = NoRequest
    /\ last = NoMessage
    /\ storeOps = NoStoreOps
    /\ readmeValues \in HeaderRowTables
    /\ readmeResult = NotParsed
    /\ tabValues = NoTabValues
    /\ sheetCall = NoSheetCall
    /\ authToken = NoStoredToken
    /\ authCall = NoAuthCall
    /\ logs = <<>>
    /\ currentLevel = INFO
    /\ ExtraIdle

SpecHeaderRow == InitHeaderRow /\ [][NextParser]_vars

\* C29: the structure parsed is the one read from the rows below the first
\* row that has four cells or more and, among the first four, lower-cased, a
\* cell that contains 'tab', a cell that contains 'header' and two cells that
\* contain 'column'; a row with fewer than two such cells is not taken as
\* the header row; and the values are not valid when there is no such row.
C29_HeaderRowHasTwoColumnCells ==
    readmeResult.done =>
        LET Has(row, word) ==
                {i \in 1..4 : includes(trim(toLowerCase(row[i])), word)}
            Qualifies(row) ==
                /\ Len(row) >= 4
                /\ Has(row, S_tab) # {}
                /\ Has(row, S_header) # {}
                /\ Cardinality(Has(row, S_column)) >= 2
            rows == {i \in 1..Len(readmeValues) : Qualifies(readmeValues[i])}
        IN  IF rows = {}
            THEN ~readmeResult.isValid
            ELSE \E k \in rows :
                   /\ \A j \in rows : k <= j
                   /\ readmeResult.structure =
                          [tabs |-> ParseReadmeRows(readmeValues, k + 1, <<>>)]

\* C30: the headerRow of every tab of a structure parsed is an integer not
\* less than 1, whatever the header-row cells of the README are.
C30_HeaderRowPositive ==
    (readmeResult.done /\ readmeResult.structure # NoStructure) =>
        \A i \in 1..Len(readmeResult.structure.tabs) :
            /\ readmeResult.structure.tabs[i].headerRow \in Int
            /\ readmeResult.structure.tabs[i].headerRow >= 1

(***************************************************************************)
(* The sums and counts of the event data, stated over the rows of the      *)
(* tabs: claims checked under SpecEventSheet.                              *)
(***************************************************************************)
\* What the rows of the budget tabs that were read give as spent: for every
\* data row that passes Counts, the first cell after the first that parses
\* as a number above 0.  Amounts are in hundredths.
SpentOf(c, Counts(_)) ==
    LET tabs == c.structure.tabs
        Amount(row) ==
            LET cells == {k \in 2..Len(row) : parseNumber(row[k]) > 0}
            IN  IF cells = {} \/ ~Counts(row) THEN 0
                ELSE parseNumber(row[CHOOSE k \in cells : \A j \in cells : k <= j])
        OfTab(i) ==
            LET lower == toLowerCase(tabs[i].name)
                rows == JsSlice(tabValues[tabs[i].name], tabs[i].headerRow)
                sum[n \in 0..Len(rows)] ==
                    IF n = 0 THEN 0 ELSE sum[n - 1] + Amount(rows[n])
            IN  IF /\ c.outs[i] = "ok"
                   /\ \/ includes(lower, <<"b", "u", "d", "g", "e", "t">>)
                      \/ includes(lower, <<"e", "x", "p", "e", "n", "s", "e">>)
                THEN sum[Len(rows)] ELSE 0
        total[n \in 0..Len(tabs)] == IF n = 0 THEN 0 ELSE total[n - 1] + OfTab(n)
    IN  total[Len(tabs)]

\* C31, as claimed: budget.spent of the event data is the sum, over the data
\* rows of every tab whose name contains 'budget' or 'expense', of the first
\* cell after the first that parses as a number above 0.
C31_SpentSumsEveryDataRow ==
    (sheetCall.op = "readEventSheet" /\ sheetCall.pc = "done" /\ ~sheetCall.throws) =>
        sheetCall.eventData.budget.spent = SpentOf(sheetCall, LAMBDA row : TRUE)

\* C31, amended: the sum is over the data rows whose first cell is not
\* empty; one cell of a row at most adds to it.
C31_SpentSumsNamedRows ==
    (sheetCall.op = "readEventSheet" /\ sheetCall.pc = "done" /\ ~sheetCall.throws) =>
        sheetCall.eventData.budget.spent =
            SpentOf(sheetCall, LAMBDA row : Cell(row, 0) # <<>>)

\* The rows Catering 11500 and Venue 8000 under a total of 25000: spent
\* 19500, remaining 5500.
C31_Witness ==
    /\ sheetCall.op = "readEventSheet"
    /\ sheetCall.pc = "done"
    /\ ~sheetCall.throws
    /\ Len(tabValues[S_Budget]) = 3
    /\ Cell(tabValues[S_Budget][2], 1) = <<"1", "1", "5", "0", "0">>
    /\ Cell(tabValues[S_Budget][3], 1) = <<"8", "0", "0", "0">>
    /\ sheetCall.eventData.budget.total = 2500000
    /\ sheetCall.eventData.budget.spent = 1950000
    /\ sheetCall.eventData.budget.remaining = 550000

\* The rows of the tabs that were read and whose name contains 'task',
\* 'todo' or 'timeline' that make a task, in the order of the tabs and of
\* the rows: the data rows whose first cell is not empty.
TaskRowsOf(c) ==
    LET tabs == c.structure.tabs
        OfTab(i) ==
            LET lower == toLowerCase(tabs[i].name)
            IN  IF /\ c.outs[i] = "ok"
                   /\ \/ includes(lower, <<"t", "a", "s", "k">>)
                      \/ includes(lower, <<"t", "o", "d", "o">>)
                      \/ includes(lower, <<"t", "i", "m", "e", "l", "i", "n", "e">>)
                THEN SelectSeq(JsSlice(tabValues[tabs[i].name], tabs[i].headerRow),
                               LAMBDA row : Cell(row, 0) # <<>>)
                ELSE <<>>
        all[n \in 0..Len(tabs)] == IF n = 0 THEN <<>> ELSE all[n - 1] \o OfTab(n)
    IN  all[Len(tabs)]

\* C32: in the event data, tasks.completed is the number of the tasks whose
\* name or assignee contains 'complete'; tasks.upcoming holds the other
\* tasks only, in the order of the rows, five of them at most; so no task
\* counted in completed is in upcoming, and completed plus the length of
\* upcoming is not above tasks.total.
C32_CompletedAndUpcomingApart ==
    (sheetCall.op = "readEventSheet" /\ sheetCall.pc = "done" /\ ~sheetCall.throws) =>
        LET complete == <<"c", "o", "m", "p", "l", "e", "t", "e">>
            Done(row) == \/ includes(toLowerCase(Cell(row, 0)), complete)
                         \/ includes(toLowerCase(Cell(row, 2)), complete)
            rows == TaskRowsOf(sheetCall)
            open == SelectSeq(rows, LAMBDA row : ~Done(row))
            tasks == sheetCall.eventData.tasks
        IN  /\ tasks.total = Len(rows)
            /\ tasks.completed = Cardinality({i \in 1..Len(rows) : Done(rows[i])})
            /\ Len(tasks.upcoming) = (IF Len(open) < 5 THEN Len(open) ELSE 5)
            /\ \A k \in 1..Len(tasks.upcoming) :
                   /\ tasks.upcoming[k].name = Cell(open[k], 0)
                   /\ tasks.upcoming[k].assignedTo = Cell(open[k], 2)
            /\ tasks.completed + Len(tasks.upcoming) <= tasks.total

\* C33: in readRange, the sleep after the fetch n, when that fetch was
\* answered 429 or rejected, is n times RETRY_DELAY (1000 ms, then 2000 ms),
\* and there is no sleep after the fetch MAX_RETRIES, the last: a call that
\* ends by throwing has slept once less than it fetched.
C33_BackoffBetweenAttemptsOnly ==
    call.op = "readRange" =>
        /\ \A n \in 1..Len(call.sleeps) : call.sleeps[n] = n * RETRY_DELAY
        /\ \A n \in 1..Len(call.log) :
               (call.log[n].out \in {"429", "neterr"} /\ n < MAX_RETRIES)
                   => (Len(call.sleeps) >= n /\ call.sleeps[n] = n * RETRY_DELAY)
        /\ Len(call.sleeps) < MAX_RETRIES
        /\ (call.pc = "done" /\ call.result = "throw" /\ Len(call.log) >= 1)
               => Len(call.sleeps) = Len(call.log) - 1

\* C34, as claimed: readEventSheet issues one readRange for every tab of the
\* structure and issues them together, the request for a tab not waiting
\* for the answer to another: when the first answer is there, the request
\* for every tab has been issued.
C34_TabsReadTogether ==
    (sheetCall.op = "readEventSheet" /\ sheetCall.pc = "tabs" /\ Len(sheetCall.outs) >= 1)
        => sheetCall.issued = Len(sheetCall.structure.tabs)

\* C34, amended: readEventSheet issues one readRange for every tab of the
\* structure, in the order of the tabs and one after the other: one request
\* at most is without its answer, and a call that returns has issued as
\* many requests as the structure has tabs.
C34_TabsReadInTurn ==
    (sheetCall.op = "readEventSheet" /\ sheetCall.pc \in {"tabs", "done"} /\ ~sheetCall.throws)
        => /\ sheetCall.issued - Len(sheetCall.outs) \in {0, 1}
           /\ sheetCall.issued <= Len(sheetCall.structure.tabs)
           /\ sheetCall.pc = "done" => sheetCall.issued = Len(sheetCall.structure.tabs)

\* The request for the third of four tabs issued, two answers there.
C34_Witness ==
    /\ sheetCall.op = "readEventSheet"
    /\ sheetCall.pc = "tabs"
    /\ Len(sheetCall.structure.tabs) = 4
    /\ sheetCall.issued = 3
    /\ Len(sheetCall.outs) = 2

(***************************************************************************)
(* SpecApiClient: ApiClient.makeAuthenticatedRequest (shared/api-client),  *)
(* one iteration of its loop per step.  The variable token is what         *)
(* getValidToken yields; it can change between two iterations.  The        *)
(* variable call holds the request: the tokens looked up, the fetches      *)
(* issued, the sleeps made and how the request ended.                      *)
(***************************************************************************)
API_MAX_RETRIES == 3
API_RETRY_DELAY == 1000

ApiOutcomes == {"ok", "400", "401", "403", "404", "500", "neterr"}

NoValidTokenError == "No valid authentication token available"
ApiAuthFailed == "Authentication failed. Please sign in again."
ApiAccessDenied == "Access denied. You may not have permission for this operation."
ApiNotFound == "Requested resource not found."
ApiServerError == "Server error. Please try again later."
ApiRequestFailed == "API request failed: 400 "

\* The error one iteration throws: for the token it looked up and, with a
\* token, the answer to its fetch.
ApiError(tok, o) ==
    IF tok = NoToken THEN NoValidTokenError
    ELSE CASE o = "401" -> ApiAuthFailed
           [] o = "403" -> ApiAccessDenied
           [] o = "404" -> ApiNotFound
           [] o = "500" -> ApiServerError
           [] o = "400" -> ApiRequestFailed
           [] OTHER -> FetchRejected

\* The test of the catch block: the message includes 'Authentication
\* failed', 'Access denied' or 'not found'.
ApiNotRetried(message) ==
    message \in {ApiAuthFailed, ApiAccessDenied, ApiNotFound}

ApiIdle ==
    [op |-> "makeAuthenticatedRequest", pc |-> "loop", attempt |-> 1,
     lookups |-> <<>>, log |-> <<>>, sleeps |-> <<>>,
     lastError |-> Undefined, result |-> "none", error |-> Undefined]

\* One iteration of the loop of makeAuthenticatedRequest: tok is the token
\* getValidToken yields, o the answer to the fetch if one is issued.
apiAttempt(c, tok, o) ==
    LET c1 == [c EXCEPT !.lookups = Append(@, tok),
                        !.log = IF tok = NoToken THEN @ ELSE Append(@, o)]
    IN  IF tok # NoToken /\ o = "ok"
        THEN [c1 EXCEPT !.pc = "done", !.result = "ok"]
        ELSE LET lastError == ApiError(tok, o)
                 thrown == [c1 EXCEPT !.pc = "done", !.result = "throw",
                                      !.lastError = lastError, !.error = lastError]
             IN  IF ApiNotRetried(lastError) THEN thrown
                 ELSE IF c.attempt < API_MAX_RETRIES
                 THEN [c1 EXCEPT !.lastError = lastError,
                                 !.sleeps = Append(@, API_RETRY_DELAY * 2 ^ (c.attempt - 1)),
                                 !.attempt = @ + 1]
                 ELSE thrown

StartApiRequest ==
    /\ call.pc \in {"idle", "done"}
    /\ call' = ApiIdle
    /\ UNCHANGED <<token, remote, store, responseCache, now, ticks, req, last, unitVars>>

ApiAttempt ==
    /\ call.op = "makeAuthenticatedRequest"
    /\ call.pc = "loop"
    /\ \E o \in ApiOutcomes : call' = apiAttempt(call, token, o)
    /\ UNCHANGED <<token, remote, store, responseCache, now, ticks, req, last, unitVars>>

NextApiClient ==
    \/ StartApiRequest
    \/ ApiAttempt
    \/ TokenChanges

SpecApiClient == Init /\ [][NextApiClient]_vars

\* C35: an iteration of makeAuthenticatedRequest whose token lookup yields no
\* token ends the request: it is the last iteration, the request has thrown
\* the error of the missing token, no fetch was made in it, and no sleep
\* follows it, as for a fetch answered 401, 403 or 404.
C35_NoTokenFailsAtOnce ==
    call.op = "makeAuthenticatedRequest" =>
        \A n \in 1..Len(call.lookups) :
            call.lookups[n] = NoToken =>
                /\ n = Len(call.lookups)
                /\ call.pc = "done"
                /\ call.result = "throw"
                /\ call.error = NoValidTokenError
                /\ Len(call.sleeps) <= n - 1

(***************************************************************************)
(* SpecRateLimit: the rate limit of MessageHandler.handleMessage.  Every   *)
(* step is one call of handleMessage by a sender, or an advance of the     *)
(* clock.  rateWindows keeps, apart from the handler's own bookkeeping,    *)
(* the window the requests of a sender id are in: it opens with the first  *)
(* request of the sender id, or with its first request later than          *)
(* RATE_LIMIT_WINDOW after the opening of the window before.               *)
(***************************************************************************)
RATE_LIMIT_WINDOW == 60 * 1000
RATE_LIMIT_MAX_REQUESTS == 60

MaxRateTicks == 2
MaxOverLimit == 1

\* chrome.runtime.MessageSender: the popup has no tab, a content script has
\* the tab it runs in.
TabIds == {0}
RateSenders == {[tab |-> FALSE, id |-> 0]} \cup {[tab |-> TRUE, id |-> i] : i \in TabIds}

\* Number.prototype.toString of a tab id.
idToString(n) == <<"0", "1", "2", "3", "4", "5", "6", "7", "8", "9">>[n + 1]

\* sender.tab?.id?.toString() || 'unknown'
senderIdOf(sender) == IF sender.tab THEN idToString(sender.id) ELSE "unknown"

\* A variant of windowOver: the window is over at its reset time already.
windowOverAtReset(senderData, t) == ~senderData.present \/ t >= senderData.resetTime

\* !senderData || now > senderData.resetTime
windowOver(senderData, t) == ~senderData.present \/ t > senderData.resetTime

\* checkRateLimit at time t: the new requestCounts and the value returned.
checkRateLimit(counts, sender, t) ==
    LET senderId == senderIdOf(sender)
        senderData == IF windowOver(counts[senderId], t)
                      THEN [present |-> TRUE, count |-> 0,
                            resetTime |-> t + RATE_LIMIT_WINDOW]
                      ELSE counts[senderId]
        counted == [senderData EXCEPT !.count = @ + 1]
    IN  [counts |-> [counts EXCEPT ![senderId] = counted],
         ok |-> counted.count <= RATE_LIMIT_MAX_REQUESTS]

\* The window of a sender id after a request at time t that was accepted or
\* not.
windowAfter(w, t, ok) ==
    LET cur == IF ~w.open \/ t > w.start + RATE_LIMIT_WINDOW
               THEN [open |-> TRUE, start |-> t, seen |-> 0, accepted |-> 0,
                     refusedBefore |-> w.seen > w.accepted]
               ELSE w
    IN  [cur EXCEPT !.seen = @ + 1,
                    !.accepted = IF ok THEN @ + 1 ELSE @]

RateMessageTypes == {"READ_EVENT_DATA"}
NoRateMessage ==
    [type |-> "none", senderId |-> "none", accepted |-> FALSE, routed |-> FALSE,
     response |-> ErrorOnly("")]
Routed == DataOnly(NoData)

InitRateLimit ==
    /\ token = NoToken
    /\ call = IdleCall
    /\ remote = InitialRemote
    /\ store = EmptyStore
    /\ responseCache = EmptyCache
    /\ now = 0
    /\ ticks = 0
    /\ req = NoRequest
    /\ last = NoRateMessage
    /\ storeOps = NoStoreOps
    /\ readmeValues = <<>>
    /\ readmeResult = NotParsed
    /\ tabValues = NoTabValues
    /\ sheetCall = NoSheetCall
    /\ authToken = NoStoredToken
    /\ authCall = NoAuthCall
    /\ logs = <<>>
    /\ currentLevel = INFO
    /\ ExtraIdle

RateUnchanged ==
    UNCHANGED <<token, call, remote, store, responseCache, req, storeOps,
                parserVars, sheetVars, authVars, loggerVars, versions, bulkVars>>

\* handleMessage up to the cache lookup: a refused request throws and the
\* catch block answers; an accepted one goes on to the cache and the
\* handlers.
ReceiveRateLimited ==
    /\ \E sender \in RateSenders, type \in RateMessageTypes :
        LET senderId == senderIdOf(sender)
            checked == checkRateLimit(requestCounts, sender, now)
        IN  /\ \/ windowOver(requestCounts[senderId], now)
               \/ requestCounts[senderId].count < RATE_LIMIT_MAX_REQUESTS + MaxOverLimit
            /\ requestCounts' = checked.counts
            /\ rateWindows' = [rateWindows EXCEPT
                                  ![senderId] = windowAfter(@, now, checked.ok)]
            /\ \E answer \in (IF checked.ok THEN {Routed}
                              ELSE Caught("", RateLimitExceeded, type)) :
                  last' = [type |-> type, senderId |-> senderId,
                           accepted |-> checked.ok, routed |-> checked.ok,
                           response |-> answer]
    /\ UNCHANGED <<now, ticks>>
    /\ RateUnchanged

RateSteps == {1, RATE_LIMIT_WINDOW - 1}

RateTick ==
    /\ ticks < MaxRateTicks
    /\ \E d \in RateSteps : now' = now + d
    /\ ticks' = ticks + 1
    /\ last' = NoRateMessage
    /\ UNCHANGED rateVars
    /\ RateUnchanged

NextRateLimit ==
    \/ ReceiveRateLimited
    \/ RateTick

SpecRateLimit == InitRateLimit /\ [][NextRateLimit]_vars

\* C36: in the window of a sender id at most RATE_LIMIT_MAX_REQUESTS requests
\* are accepted; a request that comes in the window after that many is
\* answered with the rate limit error and is not routed to a handler; the
\* first request after the window is accepted.
C36_AtMostSixtyPerWindow ==
    /\ \A s \in SenderIds : rateWindows[s].accepted <= RATE_LIMIT_MAX_REQUESTS
    /\ last.type # "none" =>
          LET w == rateWindows[last.senderId]
          IN  /\ w.seen > RATE_LIMIT_MAX_REQUESTS =>
                    /\ ~last.accepted
                    /\ ~last.routed
                    /\ last.response = ErrorOnly(FriendlyRateLimit)
              /\ w.seen = 1 => last.accepted /\ last.routed

\* A request of a sender id was refused in one window, and its first request
\* after that window has been accepted.
C36_Witness ==
    /\ last.type # "none"
    /\ last.accepted
    /\ rateWindows[last.senderId].seen = 1
    /\ rateWindows[last.senderId].refusedBefore

(***************************************************************************)
(* SpecAuthMessages: handleMessage for AUTH_STATUS, AUTH_LOGIN and         *)
(* AUTH_LOGOUT, one message per step, with the response cache and the      *)
(* stored token.  The storage answers every call here; the token endpoint  *)
(* answers a refresh one way or another.                                   *)
(***************************************************************************)
\* `${message.type}:${payload}` of a message without payload.
AuthStatusKey == "AUTH_STATUS:"
AuthCacheKeys == {AuthStatusKey}

\* isAuthenticated: a stored token that is not expired, or that can be
\* refreshed.
isAuthenticated(stored, t, getAnswer) ==
    IF getAnswer # "ok" \/ ~stored.present THEN FALSE
    ELSE IF t >= stored.expires_at - TOKEN_REFRESH_BUFFER
            /\ stored.refresh_token = Undefined
    THEN FALSE
    ELSE TRUE

AuthAnswer(success, authenticated, hasValidToken) ==
    [success |-> success, authenticated |-> authenticated,
     hasValidToken |-> hasValidToken]

NoAuthMessage ==
    [type |-> "none", afterLogin |-> FALSE, fromCache |-> FALSE,
     response |-> AuthAnswer(FALSE, FALSE, FALSE)]

\* Whether the message handled last was an AUTH_LOGIN that succeeded.
LoggedInLast == last.type = "AUTH_LOGIN" /\ last.response.success

InitAuthMessages ==
    /\ token = NoToken
    /\ call = IdleCall
    /\ remote = InitialRemote
    /\ store = EmptyStore
    /\ responseCache = [k \in AuthCacheKeys |-> NoCached]
    /\ now = 0
    /\ ticks = 0
    /\ req = NoRequest
    /\ last = NoAuthMessage
    /\ storeOps = NoStoreOps
    /\ readmeValues = <<>>
    /\ readmeResult = NotParsed
    /\ tabValues = NoTabValues
    /\ sheetCall = NoSheetCall
    /\ authToken \in StoredTokens
    /\ authCall = NoAuthCall
    /\ logs = <<>>
    /\ currentLevel = INFO
    /\ ExtraIdle

AuthMessagesUnchanged ==
    UNCHANGED <<token, call, remote, store, req, storeOps, parserVars,
                sheetVars, authCall, loggerVars, extraVars>>

\* handleMessage for AUTH_STATUS: the cached response if there is one, else
\* the response of handleAuthMessage, which is cached.
ReceiveAuthStatus ==
    /\ \E got \in {getFromCache(responseCache, AuthStatusKey, now)} :
         IF got.hit
         THEN /\ last' = [type |-> "AUTH_STATUS", afterLogin |-> LoggedInLast,
                          fromCache |-> TRUE,
                          response |-> responseCache[AuthStatusKey].data]
              /\ responseCache' = got.cache
              /\ authToken' = authToken
         ELSE \E out \in RefreshOutcomes :
              \E authenticated \in {isAuthenticated(authToken, now, "ok")} :
              \E r \in {IF authenticated
                        THEN getValidToken(authToken, now, "ok", out, "ok")
                        ELSE [result |-> Null, fetches |-> <<>>, stored |-> authToken]} :
              \E response \in {AuthAnswer(TRUE, authenticated, r.result # Null)} :
                /\ last' = [type |-> "AUTH_STATUS", afterLogin |-> LoggedInLast,
                            fromCache |-> FALSE, response |-> response]
                /\ responseCache' = setCache(got.cache, AuthStatusKey, response, now)
                /\ authToken' = r.stored
    /\ UNCHANGED <<now, ticks>>
    /\ AuthMessagesUnchanged

\* handleMessage for AUTH_LOGIN: authenticateUser stores the token of the
\* flow; the response is not cached and the cache is left as it is.
ReceiveAuthLogin ==
    /\ \E flow \in AuthFlowOutcomes :
         /\ authToken' = IF flow = "ok"
                         THEN enrichTokenWithExpiration("a1", Undefined, 3600, now)
                         ELSE authToken
         /\ last' = [type |-> "AUTH_LOGIN", afterLogin |-> LoggedInLast,
                     fromCache |-> FALSE,
                     response |-> AuthAnswer(flow = "ok", FALSE, FALSE)]
    /\ UNCHANGED <<responseCache, now, ticks>>
    /\ AuthMessagesUnchanged

\* handleMessage for AUTH_LOGOUT: logout, then clearCache.
ReceiveAuthLogout ==
    /\ \E out \in RevokeOutcomes : \E r \in {logout(authToken, "ok", "ok")} :
         /\ authToken' = r.stored
         /\ responseCache' = IF r.throws THEN responseCache
                             ELSE [k \in AuthCacheKeys |-> NoCached]
         /\ last' = [type |-> "AUTH_LOGOUT", afterLogin |-> LoggedInLast,
                     fromCache |-> FALSE,
                     response |-> AuthAnswer(~r.throws, FALSE, FALSE)]
    /\ UNCHANGED <<now, ticks>>
    /\ AuthMessagesUnchanged

AuthMessagesTick ==
    /\ ticks < MaxAuthTicks
    /\ \E d \in TimeSteps : now' = now + d
    /\ ticks' = ticks + 1
    /\ UNCHANGED <<responseCache, last, authToken>>
    /\ AuthMessagesUnchanged

NextAuthMessages ==
    \/ ReceiveAuthStatus
    \/ ReceiveAuthLogin
    \/ ReceiveAuthLogout
    \/ AuthMessagesTick

SpecAuthMessages == InitAuthMessages /\ [][NextAuthMessages]_vars

\* C37: the AUTH_STATUS handled next after an AUTH_LOGIN that succeeded is
\* answered with authenticated = true, whatever AUTH_STATUS was answered
\* before the login.
C37_StatusAfterLoginAuthenticated ==
    (last.type = "AUTH_STATUS" /\ last.afterLogin) => last.response.authenticated

(***************************************************************************)
(* SpecReadUpdate: READ_EVENT_DATA and UPDATE_EVENT_DATA messages whose    *)
(* handling interleaves.  A READ_EVENT_DATA that goes on to the tabs takes *)
(* three steps: it is received, its tabs are read, and, when readEventSheet*)
(* has returned, its response is cached and returned.  An UPDATE_EVENT_DATA*)
(* with a budget can be handled between any two of them; it overwrites the *)
(* rows of the Budget tab.                                                 *)
(***************************************************************************)
MaxUpdates == 1

\* readEventSheet reads the tabs of the request and builds the response.
ReadTabsOfRequest ==
    /\ req.pc = "reading"
    /\ \E outs \in [1..Len(req.structure.tabs) -> ReadAnswers] :
       \E response \in
           {DataOnly(parseFlexibleEventData(
                [i \in 1..Len(req.structure.tabs) |->
                    IF outs[i] = "ok" THEN tabValues[req.structure.tabs[i].name]
                    ELSE <<>>],
                req.structure))} :
         req' = [pc |-> "read", sheet |-> req.sheet, structure |-> req.structure,
                 response |-> response, version |-> versions.sheet[req.sheet]]
    /\ UNCHANGED <<token, call, remote, store, responseCache, now, ticks, last,
                   unitVars>>

\* The rest of handleMessage for the request: setCache and return.
CompleteReadEventData ==
    /\ req.pc = "read"
    /\ responseCache' = setCache(responseCache,
                                 getCacheKey("READ_EVENT_DATA", req.sheet),
                                 req.response, now)
    /\ versions' = [versions EXCEPT !.cached[req.sheet] = req.version]
    /\ last' = [last EXCEPT
                   !.type = "READ_EVENT_DATA", !.sheet = req.sheet, !.at = now,
                   !.hadToken = TRUE, !.fromCache = FALSE, !.pending = FALSE,
                   !.log = @ \o [i \in 1..Len(req.structure.tabs) |-> "range"],
                   !.response = req.response]
    /\ req' = NoRequest
    /\ UNCHANGED <<token, call, remote, store, now, ticks, storeOps, parserVars,
                   sheetVars, authVars, loggerVars, rateVars,
                   bulkVars>>

\* handleSheetsMessage, case 'UPDATE_EVENT_DATA', for a payload with a
\* budget: updateEventData puts the rows of the budget, then
\* clearSheetsCache.
ReceiveUpdateBudget ==
    /\ \E sheetId \in Sheets :
       \E outs \in [{"budget"} -> WriteAnswers(token)] :
       \E first \in FirstToReject(token, {"budget"}, outs) :
       \E u \in {updateEventData(token, {"budget"}, outs, first)} :
         LET type == "UPDATE_EVENT_DATA"
         IN  IF u.throws
             THEN /\ UNCHANGED <<responseCache, tabValues, versions>>
                  /\ \E e \in Caught("Failed to update event data: ", u.error, type) :
                       last' = Handled(type, sheetId, FALSE, HasFresh(sheetId),
                                       NotValidated, u.log, e)
             ELSE /\ versions.sheet[sheetId] < MaxUpdates
                  /\ \E b \in BudgetTables \ {tabValues[S_Budget]} :
                       tabValues' = [tabValues EXCEPT ![S_Budget] = b]
                  /\ responseCache' = clearSheetsCache(responseCache, sheetId)
                  /\ versions' = [versions EXCEPT !.sheet[sheetId] = @ + 1]
                  /\ last' = Handled(type, sheetId, FALSE, HasFresh(sheetId),
                                     NotValidated, u.log, Success(<<>>, NoData))
    /\ UNCHANGED <<token, call, remote, store, now, ticks, req, storeOps,
                   parserVars, sheetCall, authVars, loggerVars, rateVars,
                   bulkVars>>

NextReadUpdate ==
    \/ ReceiveReadEventData
    \/ ReadTabsOfRequest
    \/ CompleteReadEventData
    \/ ReceiveUpdateBudget
    \/ Tick

SpecReadUpdate == InitReadMessages /\ [][NextReadUpdate]_vars

GuestLists == { <<"g1", "g2">>, <<"g3">> }
WhatsAppTabId == 7

NotReadyError == "WhatsApp Web is not ready. Please open WhatsApp Web and login."
NullProcessError == "Cannot read properties of null"

\* The catch and finally blocks of startBulkSending: the error is broadcast
\* with the results of the current process, if any, and the process is set
\* to null.
bulkThrown(run, P, error) ==
    [proc |-> NoProcess,
     run |-> [run EXCEPT !.pc = "done", !.outcome = "threw", !.error = error,
                         !.reported = [NoReport EXCEPT !.results = P.results]]]

\* The end of startBulkSending after the loop: the process is marked
\* complete, SENDING_COMPLETE is broadcast with its results and counts, and
\* the process is set to null.
bulkComplete(run, P) ==
    IF ~P.present THEN bulkThrown(run, P, NullProcessError)
    ELSE [proc |-> NoProcess,
          run |-> [run EXCEPT
                      !.pc = "done", !.outcome = "ok",
                      !.reported = [results |-> P.results,
                                    total |-> Len(run.guests),
                                    successful |-> P.progress.successCount,
                                    failed |-> P.progress.errorCount,
                                    totalGuests |-> P.progress.totalGuests]]]

\* The top of the loop for guest i: the progress of the current process is
\* updated and sendToSingleGuest is called.
bulkLoopTop(run, P, i) ==
    IF ~P.present THEN bulkThrown(run, P, NullProcessError)
    ELSE [proc |-> [P EXCEPT !.progress.currentGuest = i,
                             !.progress.currentGuestName = run.guests[i]],
          run |-> [run EXCEPT !.pc = "sending", !.i = i]]

\* The loop after the wait that follows guest i, or before the first guest.
bulkNext(run, P, i) ==
    IF i < Len(run.guests) THEN bulkLoopTop(run, P, i + 1)
    ELSE bulkComplete(run, P)

\* The loop body after sendToSingleGuest returned: the result is pushed to
\* the results of the current process and counted there.  A send that
\* succeeded is followed by updateSheetStatus, any send but the last by the
\* delay; after a last send that failed the loop ends at once.
bulkRecord(run, P, success) ==
    IF ~P.present THEN bulkThrown(run, P, NullProcessError)
    ELSE LET result == [success |-> success, guestName |-> run.guests[run.i]]
             P1 == [P EXCEPT
                       !.results = Append(@, result),
                       !.progress.successCount = IF success THEN @ + 1 ELSE @,
                       !.progress.errorCount = IF success THEN @ ELSE @ + 1]
         IN  IF success \/ run.i < Len(run.guests)
             THEN [proc |-> P1, run |-> [run EXCEPT !.pc = "paused"]]
             ELSE bulkComplete(run, P1)

BulkUnchanged ==
    UNCHANGED <<token, call, remote, store, responseCache, now, ticks, req, last,
                storeOps, parserVars, sheetVars, authVars, loggerVars, rateVars,
                versions>>

BulkStep(r, step) ==
    /\ currentSendingProcess' = step.proc
    /\ runs' = [runs EXCEPT ![r] = step.run]

\* The listener for START_BULK_WHATSAPP_SEND and startBulkSending up to the
\* first await of ensureWhatsAppTabReady.
StartBulkSending ==
    /\ \E r \in Runs : \E guests \in GuestLists :
           /\ runs[r].pc = "idle"
           /\ BulkStep(r,
                [proc |-> [present |-> TRUE, guests |-> guests,
                           progress |-> [NoProgress EXCEPT !.totalGuests = Len(guests)],
                           results |-> <<>>, whatsappTabId |-> 0, owner |-> r],
                 run |-> [IdleRun EXCEPT !.pc = "tab", !.guests = guests]])
    /\ BulkUnchanged

\* ensureWhatsAppTabReady up to the delay: the id of the tab is stored in
\* the current process.  Without a tab, or without a process, the function
\* returns false and startBulkSending throws.
SetWhatsAppTab ==
    /\ \E r \in Runs : \E tab \in {WhatsAppTabId, 0} :
           /\ runs[r].pc = "tab"
           /\ BulkStep(r,
                IF tab = 0 \/ ~currentSendingProcess.present
                THEN bulkThrown(runs[r], currentSendingProcess, NotReadyError)
                ELSE [proc |-> [currentSendingProcess EXCEPT !.whatsappTabId = tab],
                      run |-> [runs[r] EXCEPT !.pc = "ready"]])
    /\ BulkUnchanged

\* The rest of ensureWhatsAppTabReady, IS_READY being answered by the tab of
\* the current process, and startBulkSending up to the first send.
CheckWhatsAppReady ==
    /\ \E r \in Runs :
       \E isReady \in (IF currentSendingProcess.present
                          /\ currentSendingProcess.whatsappTabId # 0
                       THEN BOOLEAN ELSE {FALSE}) :
           /\ runs[r].pc = "ready"
           /\ BulkStep(r,
                IF ~isReady
                THEN bulkThrown(runs[r], currentSendingProcess, NotReadyError)
                ELSE bulkNext(runs[r], currentSendingProcess, 0))
    /\ BulkUnchanged

\* sendToSingleGuest returns and the loop body records its result.
SendToSingleGuest ==
    /\ \E r \in Runs :
       \E success \in (IF currentSendingProcess.present
                          /\ currentSendingProcess.whatsappTabId # 0
                       THEN BOOLEAN ELSE {FALSE}) :
           /\ runs[r].pc = "sending"
           /\ BulkStep(r, bulkRecord(runs[r], currentSendingProcess, success))
    /\ BulkUnchanged

\* updateSheetStatus and the delay are over: the next guest, or the end.
ResumeBulkSending ==
    /\ \E r \in Runs :
           /\ runs[r].pc = "paused"
           /\ BulkStep(r, bulkNext(runs[r], currentSendingProcess, runs[r].i))
    /\ BulkUnchanged

NextBulkSend ==
    \/ StartBulkSending
    \/ SetWhatsAppTab
    \/ CheckWhatsAppReady
    \/ SendToSingleGuest
    \/ ResumeBulkSending

SpecBulkSend == Init /\ [][NextBulkSend]_vars

GuestNames(results) == [n \in 1..Len(results) |-> results[n].guestName]

\* C39: the counts of the current process add up to the number of its
\* results; a call of startBulkSending that completed without an exception
\* reported one result for every guest of its list, in the order of the
\* list, and counts that add up to the totalGuests of the progress.
C39_CountsMatchResults ==
    /\ currentSendingProcess.present =>
          currentSendingProcess.progress.successCount
              + currentSendingProcess.progress.errorCount
            = Len(currentSendingProcess.results)
    /\ \A r \in Runs :
          runs[r].outcome = "ok" =>
              /\ GuestNames(runs[r].reported.results) = runs[r].guests
              /\ runs[r].reported.successful + runs[r].reported.failed
                    = runs[r].reported.totalGuests

\* C40: a process that a call of startBulkSending is still working on is
\* the one that call created; no call ends with the error of a process that
\* is gone; and a call that completed reported the results of its own guests
\* only.
C40_RunsApart ==
    \A r \in Runs :
        /\ runs[r].pc \in {"tab", "ready", "sending", "paused"} =>
              currentSendingProcess.present /\ currentSendingProcess.owner = r
        /\ runs[r].outcome = "threw" => runs[r].error # NullProcessError
        /\ runs[r].outcome = "ok" =>
              \A n \in 1..Len(runs[r].reported.results) :
                  \E k \in 1..Len(runs[r].guests) :
                      runs[r].reported.results[n].guestName = runs[r].guests[k]

====
